---- MODULE Spec2Model ----
(***************************************************************************)
(* Model of the stellar-defi-sdk: the sub-clients SoroswapDex,             *)
(* CrossmintWallet and DefindexYield, and the StellarDefiClient that       *)
(* composes them.                                                          *)
(*                                                                         *)
(* `wallet` is the CrossmintWallet the caller holds and `client` the       *)
(* StellarDefiClient it holds, Null before a constructor has returned one. *)
(* A SoroswapDex and a DefindexYield hold only configuration that no       *)
(* operation reads and their constructors have no failing path, so their   *)
(* operations are always enabled.                                          *)
(*                                                                         *)
(* Every public operation is an async method that the caller awaits; the   *)
(* model runs one call at a time.  `call` holds the settled promise of the *)
(* last call (its parameters and its outcome), `sdkCalls` the requests the *)
(* vendor SDKs received during it and `fetchCalls` the HTTP requests that  *)
(* fetch received during it.  The answers of the quoting backend, of the   *)
(* HTTP endpoints and of the StellarWallet are inputs of the actions.      *)
(*                                                                         *)
(* JavaScript values: `undefined` is the empty sequence <<>> and a present *)
(* optional value v is <<v>>; strings are TLA+ strings; bigint values are  *)
(* integers.  BigInt arithmetic is exact, while TLC's integers are 32 bits *)
(* wide, so a product followed by a division is computed by BigMulDiv      *)
(* without forming the product.                                            *)
(***************************************************************************)
EXTENDS Integers, Sequences, FiniteSets, TLC

VARIABLES wallet, client, call, sdkCalls, fetchCalls,
          environment, clientInstance, constructed, widget, inflight

\* the state of the demo application: its lib/sdk module and its SwapWidget
demoVars == <<environment, clientInstance, constructed, widget, inflight>>

vars == <<wallet, client, call, sdkCalls, fetchCalls,
          environment, clientInstance, constructed, widget, inflight>>

(***************************************************************************)
(* Bounds of the model                                                     *)
(***************************************************************************)

\* Amount arguments range over -1..MaxSmallAmount and the marked amounts.
MaxSmallAmount == 2

\* The fee estimates are applied to every amount in 0..MaxEstimateAmount and to
\* the marked amounts.
MaxEstimateAmount == 2000

\* getClient constructs at most MaxConstructions clients in one behaviour.
MaxConstructions == 8

(***************************************************************************)
(* Program constants                                                       *)
(***************************************************************************)

ADDRESS_LENGTH == 56

DEFAULT_SLIPPAGE_BPS == 100

BPS_DENOMINATOR == 10000

DEFAULT_DEADLINE_SECONDS == 1800

HTTP_NOT_FOUND == 404

ErrorCodes ==
    [ WALLET_NOT_FOUND       |-> "WALLET_NOT_FOUND",
      WALLET_CREATION_FAILED |-> "WALLET_CREATION_FAILED",
      INSUFFICIENT_LIQUIDITY |-> "INSUFFICIENT_LIQUIDITY",
      SWAP_FAILED            |-> "SWAP_FAILED",
      INVALID_TOKEN          |-> "INVALID_TOKEN",
      MISSING_API_KEY        |-> "MISSING_API_KEY",
      SIGNER_NOT_FOUND       |-> "SIGNER_NOT_FOUND",
      INVALID_SIGNER         |-> "INVALID_SIGNER",
      SIGNATURE_FAILED       |-> "SIGNATURE_FAILED",
      POOL_NOT_FOUND         |-> "POOL_NOT_FOUND",
      VAULT_NOT_FOUND        |-> "VAULT_NOT_FOUND",
      DEPOSIT_FAILED         |-> "DEPOSIT_FAILED",
      WITHDRAW_FAILED        |-> "WITHDRAW_FAILED",
      TX_SUBMISSION_FAILED   |-> "TX_SUBMISSION_FAILED" ]

(***************************************************************************)
(* JavaScript values                                                       *)
(***************************************************************************)

Undefined == <<>>

Some(v) == <<v>>

\* a ?? b
Coalesce(a, b) == IF a = Undefined THEN b ELSE a[1]

\* new StellarDefiError(message, code, cause) and its subclasses
StellarDefiError(name, message, code, cause) ==
    [name |-> name, message |-> message, code |-> code, cause |-> cause]

DexError(message, code, cause) == StellarDefiError("DexError", message, code, cause)

WalletError(message, code, cause) == StellarDefiError("WalletError", message, code, cause)

YieldError(message, code, cause) == StellarDefiError("YieldError", message, code, cause)

ConfigurationError(message, code, cause) ==
    StellarDefiError("ConfigurationError", message, code, cause)

\* mutant of CauseOf: the thrown value is never kept
CauseOf_dropped(thrown) == Undefined

\* error instanceof Error ? error : undefined
CauseOf(thrown) == IF thrown.isError THEN Some(thrown) ELSE Undefined

Resolved(v) == [status |-> "resolved", value |-> v]

Rejected(e) == [status |-> "rejected", error |-> e]

(***************************************************************************)
(* bigint                                                                  *)
(***************************************************************************)

Abs(n) == IF n < 0 THEN -n ELSE n

\* (a * m) / d on bigint, d > 0: the product is exact and the quotient is
\* truncated toward zero.  With |a| = q*d + r the quotient of |a|*|m| by d is
\* q*|m| + (r*|m|) \div d, which keeps every intermediate value small.
BigMulDiv(a, m, d) ==
    LET q == (Abs(a) \div d) * Abs(m) + ((Abs(a) % d) * Abs(m)) \div d
    IN  IF (a < 0) # (m < 0) THEN 0 - q ELSE q

Digits == <<"0", "1", "2", "3", "4", "5", "6", "7", "8", "9">>

IsDigit(c) == \E i \in 1..10 : Digits[i] = c

DigitValue(c) == (CHOOSE i \in 1..10 : Digits[i] = c) - 1

RECURSIVE NatToString(_)
NatToString(n) ==
    IF n < 10 THEN Digits[n + 1]
    ELSE NatToString(n \div 10) \o Digits[(n % 10) + 1]

\* bigint.toString()
toString(n) == IF n < 0 THEN "-" \o NatToString(0 - n) ELSE NatToString(n)

AllDigits(s) == \A i \in 1..Len(s) : IsDigit(SubSeq(s, i, i))

RECURSIVE ParseNat(_)
ParseNat(s) ==
    IF Len(s) = 0 THEN 0
    ELSE ParseNat(SubSeq(s, 1, Len(s) - 1)) * 10 + DigitValue(SubSeq(s, Len(s), Len(s)))

\* BigInt(value) for a string: "" is 0n, an optionally signed run of decimal
\* digits is its value, anything else throws a SyntaxError.
BigInt(s) ==
    LET signed == Len(s) >= 1 /\ SubSeq(s, 1, 1) \in {"-", "+"}
        body   == IF signed THEN SubSeq(s, 2, Len(s)) ELSE s
    IN  IF Len(s) = 0 THEN [ok |-> TRUE, value |-> 0]
        ELSE IF Len(body) >= 1 /\ AllDigits(body)
             THEN [ok |-> TRUE,
                   value |-> IF signed /\ SubSeq(s, 1, 1) = "-"
                             THEN 0 - ParseNat(body) ELSE ParseNat(body)]
             ELSE [ok |-> FALSE,
                   error |-> [isError |-> TRUE, name |-> "SyntaxError",
                              message |-> "Cannot convert " \o s \o " to a BigInt"]]

(***************************************************************************)
(* number: parseFloat                                                      *)
(* A price impact is kept in hundredths of a percent (two decimals).       *)
(***************************************************************************)

RECURSIVE DigitRun(_, _)
\* length of the run of decimal digits of s that starts at position i
DigitRun(s, i) ==
    IF i <= Len(s) /\ IsDigit(SubSeq(s, i, i)) THEN 1 + DigitRun(s, i + 1) ELSE 0

\* parseFloat(s): the longest numeric prefix [-]digits[.digits]; NaN without one.
parseFloat(s) ==
    LET neg    == Len(s) >= 1 /\ SubSeq(s, 1, 1) = "-"
        start  == IF neg THEN 2 ELSE 1
        n1     == DigitRun(s, start)
        dot    == start + n1
        hasDot == dot <= Len(s) /\ SubSeq(s, dot, dot) = "."
        n2     == IF hasDot THEN DigitRun(s, dot + 1) ELSE 0
        whole  == ParseNat(SubSeq(s, start, start + n1 - 1))
        frac   == SubSeq(s, dot + 1, dot + n2) \o "00"
        cents  == whole * 100 + ParseNat(SubSeq(frac, 1, 2))
    IN  IF n1 + n2 = 0 THEN [nan |-> TRUE]
        ELSE [nan |-> FALSE, hundredths |-> IF neg THEN 0 - cents ELSE cents]

\* parseFloat(x) || 0 : NaN and 0 are falsy; parseFloat(undefined) is NaN.
PriceImpactOf(pct) ==
    IF pct = Undefined THEN 0
    ELSE LET f == parseFloat(pct[1]) IN IF f.nan THEN 0 ELSE f.hundredths

(***************************************************************************)
(* Inputs                                                                  *)
(***************************************************************************)

VALID_TOKEN_A == "CDLZFC3SYJYDZT7K67VZ75HPJVIEUVNIXF47ZG2FB2RMQQVU2HHGCYSC"

VALID_TOKEN_B == "CBIELTK6YBZJU5UP2WWQEUCYKLPU6AUNZ2BQ4WWFEIE3USCIHMXQDAMA"

\* a third contract address, an intermediate hop of a route
HOP_TOKEN == "CCMAPXWVZD4USEKDWRYS7DA4Y3D7E2SDMGBFJUCEXTC7VN6CUBGWPFUS"

\* the two valid addresses and the invalid ones of the tests: too short,
\* wrong prefix, no address text; and one that is one character too long
Tokens ==
    { VALID_TOKEN_A, VALID_TOKEN_B,
      "CINVALID",
      "GDLZFC3SYJYDZT7K67VZ75HPJVIEUVNIXF47ZG2FB2RMQQVU2HHGCYSC",
      "",
      "CDLZFC3SYJYDZT7K67VZ75HPJVIEUVNIXF47ZG2FB2RMQQVU2HHGCYSCA" }

TradeTypes == {"EXACT_IN", "EXACT_OUT"}

Amounts == (-1..MaxSmallAmount) \cup {99, 100, 1000, 997000000, 1000000000}

\* slippageBps: omitted, or a number of basis points (the code accepts any)
SlippageOptions ==
    {Undefined} \cup {Some(s) : s \in {0, 1, 100, 200, 9999, 10000, 10001}}

SourceAddresses == {"GDTEST123456789"}

\* Math.floor(Date.now() / 1000) at the time of the call
NowSeconds == {1700000000}

DeadlineOptions == {Undefined, Some(1700003600)}

Networks == {"testnet", "mainnet"}

\* a value thrown by a vendor SDK or by fetch: an Error, or something else
ThrownValues ==
    { [isError |-> TRUE, name |-> "Error", message |-> "Network failure"],
      [isError |-> FALSE, name |-> "string", message |-> "boom"] }

(***************************************************************************)
(* The quoting backend (SoroswapSDK.quote)                                 *)
(***************************************************************************)

\* floor(a * 997 / 1000) and floor(b * 1000 / 997) + 1: what a backend that
\* charges the flat 0.3% fee answers
FlatFeeOut(a) == BigMulDiv(a, 997, 1000)

\* mutant of FlatFeeIn: the unit that rounds in the protocol's favour is left out
FlatFeeIn_floorOnly(b) == BigMulDiv(b, 1000, 997)

FlatFeeIn(b) == BigMulDiv(b, 1000, 997) + 1

\* The other side of the trade as the backend may answer it for `amount`:
\* the flat-fee estimate, other amounts, or text that is no number.  The
\* field is a string that getQuote hands to BigInt, which accepts a sign.
BackendAmounts(amount, tradeType) ==
    { toString(IF tradeType = "EXACT_IN" THEN FlatFeeOut(amount) ELSE FlatFeeIn(amount)),
      "0", "1", "99", "100", "1000000000", "n/a" }

RoutePlans(tokenIn, tokenOut) ==
    { Undefined,
      Some(<<>>),
      Some(<<[swapInfo |-> [path |-> <<tokenIn, HOP_TOKEN, tokenOut>>], percent |-> "100"]>>),
      Some(<<[swapInfo |-> [path |-> <<tokenIn, HOP_TOKEN>>], percent |-> "50"],
             [swapInfo |-> [path |-> <<HOP_TOKEN, tokenOut>>], percent |-> "50"]>>) }

PriceImpactPcts == {Undefined, Some("0.5"), Some("12.34")}

\* Answers that a quoting backend is free to give and the grid above leaves
\* out: one that restates the exact side of the request differently, one
\* whose route plan stops at an intermediate hop, and one whose only step
\* has an empty path.
OddQuoteResponses(params) ==
    LET echoed == [kind |-> "response",
                   amountIn  |-> IF params.tradeType = "EXACT_IN" THEN toString(params.amount)
                                 ELSE "1000000000",
                   amountOut |-> IF params.tradeType = "EXACT_OUT" THEN toString(params.amount)
                                 ELSE "1000000000",
                   priceImpactPct |-> Undefined,
                   routePlan |-> Undefined]
    IN  { [echoed EXCEPT !.amountIn = "5", !.amountOut = "4"],
          [echoed EXCEPT !.routePlan =
              Some(<<[swapInfo |-> [path |-> <<params.tokenIn, HOP_TOKEN>>],
                      percent |-> "100"]>>)],
          [echoed EXCEPT !.routePlan =
              Some(<<[swapInfo |-> [path |-> <<>>], percent |-> "100"]>>)] }

\* The settled promise of soroswapSdk.quote(request): a throw, or a response
\* that answers both sides of the trade, a price impact and a route plan.
SdkQuoteOutcomes(params) ==
    { [kind |-> "throw", thrown |-> t] : t \in ThrownValues }
    \cup
    { [kind |-> "response",
       amountIn  |-> IF params.tradeType = "EXACT_IN" THEN toString(params.amount) ELSE x,
       amountOut |-> IF params.tradeType = "EXACT_OUT" THEN toString(params.amount) ELSE x,
       priceImpactPct |-> pi,
       routePlan |-> rp] :
         x  \in BackendAmounts(params.amount, params.tradeType),
         pi \in PriceImpactPcts,
         rp \in RoutePlans(params.tokenIn, params.tokenOut) }
    \cup OddQuoteResponses(params)

(***************************************************************************)
(* SoroswapDex: private helpers                                            *)
(***************************************************************************)

startsWith(s, prefix) ==
    Len(s) >= Len(prefix) /\ SubSeq(s, 1, Len(prefix)) = prefix

\* mutant of isValidAddress: the length is not checked
isValidAddress_prefixOnly(address) == startsWith(address, "C")

isValidAddress(address) ==
    Len(address) = ADDRESS_LENGTH /\ startsWith(address, "C")

\* mutant of applySlippage: the tolerance is added instead of subtracted
applySlippage_added(amount, slippageBps) ==
    BigMulDiv(amount, BPS_DENOMINATOR + slippageBps, BPS_DENOMINATOR)

applySlippage(amount, slippageBps) ==
    BigMulDiv(amount, BPS_DENOMINATOR - slippageBps, BPS_DENOMINATOR)

\* mutant of applySlippageMax: the tolerance is subtracted instead of added
applySlippageMax_subtracted(amount, slippageBps) ==
    BigMulDiv(amount, BPS_DENOMINATOR - slippageBps, BPS_DENOMINATOR)

applySlippageMax(amount, slippageBps) ==
    BigMulDiv(amount, BPS_DENOMINATOR + slippageBps, BPS_DENOMINATOR)

includes(route, asset) == \E i \in 1..Len(route) : route[i] = asset

RECURSIVE pushPath(_, _)
\* the inner loop of extractRoute: push the assets not yet in the route
pushPath(route, path) ==
    IF path = <<>> THEN route
    ELSE pushPath(IF includes(route, Head(path)) THEN route
                  ELSE Append(route, Head(path)),
                  Tail(path))

RECURSIVE pushSteps(_, _)
\* the outer loop of extractRoute
pushSteps(route, steps) ==
    IF steps = <<>> THEN route
    ELSE pushSteps(pushPath(route, Head(steps).swapInfo.path), Tail(steps))

extractRoute(routePlan, tokenIn, tokenOut) ==
    IF routePlan = Undefined \/ Len(routePlan[1]) = 0 THEN <<tokenIn, tokenOut>>
    ELSE LET route == pushSteps(<<>>, routePlan[1])
         IN  IF Len(route) > 0 THEN route ELSE <<tokenIn, tokenOut>>

(***************************************************************************)
(* SoroswapDex: public operations                                          *)
(* quoteOf and swapOf give the ways a call can settle, each with the SDK   *)
(* requests issued on the way, as [outcome, requests].                     *)
(***************************************************************************)

QuoteParams == [tokenIn : Tokens, tokenOut : Tokens, amount : Amounts, tradeType : TradeTypes]

SwapParams ==
    [tokenIn : Tokens, tokenOut : Tokens, amount : Amounts, tradeType : TradeTypes,
     slippageBps : SlippageOptions, deadline : DeadlineOptions,
     sourceAddress : SourceAddresses]

AddLiquidityParams ==
    [tokenA : {VALID_TOKEN_A, "CINVALID"},
     tokenB : {VALID_TOKEN_B, "GDLZFC3SYJYDZT7K67VZ75HPJVIEUVNIXF47ZG2FB2RMQQVU2HHGCYSC"},
     amountA : Amounts,
     amountB : {0, 1000},
     slippageBps : SlippageOptions, sourceAddress : SourceAddresses]

RemoveLiquidityParams ==
    [tokenA : {VALID_TOKEN_A, "CINVALID"},
     tokenB : {VALID_TOKEN_B, "GDLZFC3SYJYDZT7K67VZ75HPJVIEUVNIXF47ZG2FB2RMQQVU2HHGCYSC"},
     lpAmount : {-1, 0, 1000},
     minAmountA : {Undefined, Some(-1), Some(0), Some(1000)},
     minAmountB : {Undefined, Some(1000)},
     sourceAddress : SourceAddresses]

\* the request getQuote hands to soroswapSdk.quote
sdkQuoteRequest(params) ==
    [assetIn |-> params.tokenIn, assetOut |-> params.tokenOut, amount |-> params.amount,
     tradeType |-> params.tradeType, protocols |-> <<"soroswap", "aqua", "phoenix">>]

\* the catch block of getQuote for a value that is no DexError
quoteFailure(thrown) ==
    Rejected(DexError("Failed to get quote: "
                        \o (IF thrown.isError THEN thrown.message ELSE "Unknown error"),
                      ErrorCodes.INSUFFICIENT_LIQUIDITY, CauseOf(thrown)))

\* mutant of quoteFromResponse: both sides of the trade are read from the
\* backend's answer
quoteFromResponse_backendSides(params, quoteResponse) ==
    LET parsedIn  == BigInt(quoteResponse.amountIn)
        parsedOut == BigInt(quoteResponse.amountOut)
    IN  IF ~parsedIn.ok THEN quoteFailure(parsedIn.error)
        ELSE IF ~parsedOut.ok THEN quoteFailure(parsedOut.error)
        ELSE Resolved(
               [tokenIn   |-> params.tokenIn,
                tokenOut  |-> params.tokenOut,
                amountIn  |-> parsedIn.value,
                amountOut |-> parsedOut.value,
                priceImpact |-> PriceImpactOf(quoteResponse.priceImpactPct),
                route |-> extractRoute(quoteResponse.routePlan, params.tokenIn, params.tokenOut),
                minimumReceived |->
                    IF params.tradeType = "EXACT_IN"
                    THEN Some(applySlippage(parsedOut.value, DEFAULT_SLIPPAGE_BPS))
                    ELSE Undefined,
                maximumSent |->
                    IF params.tradeType = "EXACT_OUT"
                    THEN Some(applySlippageMax(parsedIn.value, DEFAULT_SLIPPAGE_BPS))
                    ELSE Undefined])

\* the body of getQuote's try block once soroswapSdk.quote has answered
quoteFromResponse(params, quoteResponse) ==
    LET exactIn  == params.tradeType = "EXACT_IN"
        exactOut == params.tradeType = "EXACT_OUT"
        parsedIn  == IF exactIn THEN [ok |-> TRUE, value |-> params.amount]
                     ELSE BigInt(quoteResponse.amountIn)
        parsedOut == IF exactOut THEN [ok |-> TRUE, value |-> params.amount]
                     ELSE BigInt(quoteResponse.amountOut)
        amountIn  == parsedIn.value
        amountOut == parsedOut.value
    IN  IF ~parsedIn.ok THEN quoteFailure(parsedIn.error)
        ELSE IF ~parsedOut.ok THEN quoteFailure(parsedOut.error)
        ELSE Resolved(
               [tokenIn   |-> params.tokenIn,
                tokenOut  |-> params.tokenOut,
                amountIn  |-> amountIn,
                amountOut |-> amountOut,
                priceImpact |-> PriceImpactOf(quoteResponse.priceImpactPct),
                route |-> extractRoute(quoteResponse.routePlan, params.tokenIn, params.tokenOut),
                minimumReceived |->
                    IF exactIn THEN Some(applySlippage(amountOut, DEFAULT_SLIPPAGE_BPS))
                    ELSE Undefined,
                maximumSent |->
                    IF exactOut THEN Some(applySlippageMax(amountIn, DEFAULT_SLIPPAGE_BPS))
                    ELSE Undefined])

\* the value that reaches the catch block of getQuote, if any: what
\* soroswapSdk.quote threw, or the SyntaxError of BigInt for an answer that is
\* no integer
quoteThrown(params, sdk) ==
    IF sdk.kind = "throw" THEN Some(sdk.thrown)
    ELSE IF params.tradeType # "EXACT_IN" /\ ~BigInt(sdk.amountIn).ok
    THEN Some(BigInt(sdk.amountIn).error)
    ELSE IF params.tradeType # "EXACT_OUT" /\ ~BigInt(sdk.amountOut).ok
    THEN Some(BigInt(sdk.amountOut).error)
    ELSE Undefined

\* getQuote(params) when soroswapSdk.quote, if it is reached, settles in one
\* of the ways `answers`: every way the call can settle
quoteWith(params, answers) ==
    IF ~isValidAddress(params.tokenIn) \/ ~isValidAddress(params.tokenOut)
    THEN { [outcome  |-> Rejected(DexError("Invalid token address",
                                           ErrorCodes.INVALID_TOKEN, Undefined)),
            thrown   |-> Undefined,
            requests |-> <<>>] }
    ELSE { [outcome  |-> IF sdk.kind = "throw" THEN quoteFailure(sdk.thrown)
                         ELSE quoteFromResponse(params, sdk),
            thrown   |-> quoteThrown(params, sdk),
            requests |-> <<sdkQuoteRequest(params)>>] :
             sdk \in answers }

\* getQuote(params): every way the call can settle, one for each way
\* soroswapSdk.quote can settle when it is reached
quoteOf(params) == quoteWith(params, SdkQuoteOutcomes(params))

\* the placeholder payload of buildSwapTransaction: txData, which the method
\* returns as Buffer.from(JSON.stringify(txData)).toString('base64') and a
\* reader gets back with JSON.parse(Buffer.from(xdr, 'base64').toString())
swapTxData(params, quote, now) ==
    LET slippageBps  == Coalesce(params.slippageBps, DEFAULT_SLIPPAGE_BPS)
        minAmountOut == IF params.tradeType = "EXACT_IN"
                        THEN applySlippage(quote.amountOut, slippageBps)
                        ELSE quote.amountOut
        maxAmountIn  == IF params.tradeType = "EXACT_OUT"
                        THEN applySlippageMax(quote.amountIn, slippageBps)
                        ELSE quote.amountIn
    IN  [type |-> IF params.tradeType = "EXACT_IN" THEN "swap_exact_tokens_for_tokens"
                  ELSE "swap_tokens_for_exact_tokens",
         tokenIn   |-> params.tokenIn,
         tokenOut  |-> params.tokenOut,
         amountIn  |-> IF params.tradeType = "EXACT_IN" THEN toString(params.amount)
                       ELSE toString(maxAmountIn),
         amountOut |-> IF params.tradeType = "EXACT_OUT" THEN toString(params.amount)
                       ELSE toString(minAmountOut),
         path      |-> quote.route,
         to        |-> params.sourceAddress,
         deadline  |-> Coalesce(params.deadline, now + DEFAULT_DEADLINE_SECONDS)]

\* buildSwapTransaction(params) when the quote request it makes settles in
\* one of the ways `answers`
swapWith(params, now, answers) ==
    IF ~isValidAddress(params.tokenIn) \/ ~isValidAddress(params.tokenOut)
    THEN { [outcome  |-> Rejected(DexError("Invalid token address",
                                           ErrorCodes.INVALID_TOKEN, Undefined)),
            quote    |-> [status |-> "none"],
            thrown   |-> Undefined,
            requests |-> <<>>] }
    ELSE { [outcome  |-> IF q.outcome.status = "rejected" THEN q.outcome
                         ELSE Resolved(swapTxData(params, q.outcome.value, now)),
            quote    |-> q.outcome,
            thrown   |-> q.thrown,
            requests |-> q.requests] :
             q \in quoteWith([tokenIn |-> params.tokenIn, tokenOut |-> params.tokenOut,
                              amount |-> params.amount, tradeType |-> params.tradeType],
                             answers) }

\* buildSwapTransaction(params): its own address check, then getQuote, then
\* the payload; a DexError is rethrown as it is
swapOf(params, now) ==
    swapWith(params, now,
             SdkQuoteOutcomes([tokenIn |-> params.tokenIn, tokenOut |-> params.tokenOut,
                               amount |-> params.amount, tradeType |-> params.tradeType]))

\* the placeholder payload of buildAddLiquidityTransaction
addLiquidityTxData(params, now) ==
    LET slippageBps == Coalesce(params.slippageBps, DEFAULT_SLIPPAGE_BPS)
        minAmountA  == applySlippage(params.amountA, slippageBps)
        minAmountB  == applySlippage(params.amountB, slippageBps)
    IN  [type |-> "add_liquidity",
         tokenA |-> params.tokenA,
         tokenB |-> params.tokenB,
         amountADesired |-> toString(params.amountA),
         amountBDesired |-> toString(params.amountB),
         amountAMin |-> toString(minAmountA),
         amountBMin |-> toString(minAmountB),
         to |-> params.sourceAddress,
         deadline |-> now + DEFAULT_DEADLINE_SECONDS]

\* the placeholder payload of buildRemoveLiquidityTransaction
removeLiquidityTxData(params, now) ==
    [type |-> "remove_liquidity",
     tokenA |-> params.tokenA,
     tokenB |-> params.tokenB,
     liquidity |-> toString(params.lpAmount),
     amountAMin |-> toString(Coalesce(params.minAmountA, 0)),
     amountBMin |-> toString(Coalesce(params.minAmountB, 0)),
     to |-> params.sourceAddress,
     deadline |-> now + DEFAULT_DEADLINE_SECONDS]

\* getPools(): no pool is known
getPoolsOf == Resolved(<<>>)

\* getPool(tokenA, tokenB): null for an invalid address, and null otherwise
getPoolOf(tokenA, tokenB) ==
    IF ~isValidAddress(tokenA) \/ ~isValidAddress(tokenB) THEN Resolved([isNull |-> TRUE])
    ELSE Resolved([isNull |-> TRUE])

\* getTokenBalance(token, address)
getTokenBalanceOf(token, address) == Resolved(0)

NoCall == [op |-> "none"]

Idle == call = NoCall

getQuote ==
    /\ Idle
    /\ \E params \in QuoteParams : \E r \in quoteOf(params) :
         /\ call' = [op |-> "getQuote", params |-> params, thrown |-> r.thrown,
                     outcome |-> r.outcome]
         /\ sdkCalls' = r.requests
    /\ UNCHANGED <<wallet, client, fetchCalls>>
    /\ UNCHANGED demoVars

buildSwapTransaction ==
    /\ Idle
    /\ \E params \in SwapParams : \E now \in NowSeconds : \E r \in swapOf(params, now) :
         /\ call' = [op |-> "buildSwapTransaction", params |-> params,
                     quote |-> r.quote, thrown |-> r.thrown, outcome |-> r.outcome]
         /\ sdkCalls' = r.requests
    /\ UNCHANGED <<wallet, client, fetchCalls>>
    /\ UNCHANGED demoVars

buildAddLiquidityTransaction ==
    /\ Idle
    /\ \E params \in AddLiquidityParams : \E now \in NowSeconds :
         /\ call' = [op |-> "buildAddLiquidityTransaction", params |-> params,
                     outcome |-> Resolved(addLiquidityTxData(params, now))]
         /\ sdkCalls' = <<>>
    /\ UNCHANGED <<wallet, client, fetchCalls>>
    /\ UNCHANGED demoVars

buildRemoveLiquidityTransaction ==
    /\ Idle
    /\ \E params \in RemoveLiquidityParams : \E now \in NowSeconds :
         /\ call' = [op |-> "buildRemoveLiquidityTransaction", params |-> params,
                     outcome |-> Resolved(removeLiquidityTxData(params, now))]
         /\ sdkCalls' = <<>>
    /\ UNCHANGED <<wallet, client, fetchCalls>>
    /\ UNCHANGED demoVars

getPools ==
    /\ Idle
    /\ call' = [op |-> "getPools", params |-> <<>>, outcome |-> getPoolsOf]
    /\ sdkCalls' = <<>>
    /\ UNCHANGED <<wallet, client, fetchCalls>>
    /\ UNCHANGED demoVars

getPool ==
    /\ Idle
    /\ \E tokenA \in Tokens : \E tokenB \in Tokens :
         /\ call' = [op |-> "getPool", params |-> [tokenA |-> tokenA, tokenB |-> tokenB],
                     outcome |-> getPoolOf(tokenA, tokenB)]
         /\ sdkCalls' = <<>>
    /\ UNCHANGED <<wallet, client, fetchCalls>>
    /\ UNCHANGED demoVars

getTokenBalance ==
    /\ Idle
    /\ \E token \in Tokens : \E address \in SourceAddresses :
         /\ call' = [op |-> "getTokenBalance", params |-> [token |-> token, address |-> address],
                     outcome |-> getTokenBalanceOf(token, address)]
         /\ sdkCalls' = <<>>
    /\ UNCHANGED <<wallet, client, fetchCalls>>
    /\ UNCHANGED demoVars

(***************************************************************************)
(* CrossmintWallet and the StellarDefiClient constructor                   *)
(***************************************************************************)

Null == [isNull |-> TRUE]

ApiKeys == {"", "test-api-key"}

BaseUrls == {Undefined, Some("/api/crossmint")}

CrossmintWalletConfigs == [apiKey : ApiKeys, network : Networks, baseUrl : BaseUrls]

StellarDefiConfigs ==
    [network : Networks, crossmint : [apiKey : ApiKeys, baseUrl : {Undefined}],
     soroswapApiKey : {"", "soroswap-key"}]

WalletAddresses == {"GADDR123", "NONEXISTENT"}

\* Date.now() as it is printed into the linkedUser of createWallet
DateNowTexts == {"1700000000000"}

\* response.json(): the parsed body, or a SyntaxError for a body that is no JSON
JsonOutcomes ==
    { [kind |-> "throw",
       thrown |-> [isError |-> TRUE, name |-> "SyntaxError",
                   message |-> "Unexpected token < in JSON"]] }
    \cup { [kind |-> "value", body |-> [error |-> e]] :
             e \in {Undefined, Some("Wallet not found"), Some("Invalid request parameters")} }
    \cup { [kind |-> "value",
            body |-> [address |-> a, publicKey |-> a, signers |-> <<>>, policies |-> <<>>]] :
             a \in WalletAddresses }
    \cup { [kind |-> "value", body |-> [signedXdr |-> "SIGNED_XDR", publicKey |-> "GDTEST123456789"]],
           [kind |-> "value", body |-> [hash |-> "TX_HASH_123", status |-> "success"]] }

HttpStatuses == {200, 400, 404, 500}

\* the settled promise of fetch(url, init): a rejection, or a response
FetchOutcomes ==
    { [kind |-> "throw", thrown |-> t] : t \in ThrownValues }
    \cup { [kind |-> "response", status |-> st, json |-> j] :
             st \in HttpStatuses, j \in JsonOutcomes }

\* Response.ok
ok(response) == response.status >= 200 /\ response.status <= 299

\* error.error of a parsed error body
errorField(body) == IF "error" \in DOMAIN body THEN body.error ELSE Undefined

\* mutant of newCrossmintWallet: the API key is not checked
newCrossmintWallet_unchecked(config) ==
    [threw |-> FALSE,
     instance |->
       [isNull  |-> FALSE,
        apiKey  |-> config.apiKey,
        network |-> config.network,
        baseUrl |-> Coalesce(config.baseUrl,
                             IF config.network = "mainnet"
                             THEN "https://www.crossmint.com/api"
                             ELSE "https://staging.crossmint.com/api"),
        stellarWallet |-> Null]]

\* new CrossmintWallet(config): the instance, or the error thrown
newCrossmintWallet(config) ==
    IF config.apiKey = ""
    THEN [threw |-> TRUE,
          error |-> ConfigurationError("API key is required",
                                       ErrorCodes.MISSING_API_KEY, Undefined)]
    ELSE [threw |-> FALSE,
          instance |->
            [isNull  |-> FALSE,
             apiKey  |-> config.apiKey,
             network |-> config.network,
             baseUrl |-> Coalesce(config.baseUrl,
                                  IF config.network = "mainnet"
                                  THEN "https://www.crossmint.com/api"
                                  ELSE "https://staging.crossmint.com/api"),
             stellarWallet |-> Null]]

\* new StellarDefiClient(config): the wallet module is constructed first
newStellarDefiClient(config) ==
    LET w == newCrossmintWallet([apiKey  |-> config.crossmint.apiKey,
                                 network |-> config.network,
                                 baseUrl |-> config.crossmint.baseUrl])
    IN  IF w.threw THEN w
        ELSE [threw |-> FALSE,
              instance |->
                [isNull  |-> FALSE,
                 network |-> config.network,
                 wallet  |-> w.instance,
                 dex     |-> [network |-> config.network, apiKey |-> config.soroswapApiKey],
                 yield   |-> [network |-> config.network]]]

chainOf(this) == IF this.network = "mainnet" THEN "stellar" ELSE "stellar-testnet"

\* the catch block of a wallet method for a value that is no WalletError
walletFailure(message, code, thrown) == Rejected(WalletError(message, code, CauseOf(thrown)))

\* createWallet(options) on the instance `this`, with `res` the way fetch settles
createWalletOf(this, res) ==
    IF res.kind = "throw"
    THEN walletFailure("Failed to create wallet", ErrorCodes.WALLET_CREATION_FAILED, res.thrown)
    ELSE IF res.json.kind = "throw"
    THEN walletFailure("Failed to create wallet", ErrorCodes.WALLET_CREATION_FAILED,
                       res.json.thrown)
    ELSE IF ~ok(res)
    THEN Rejected(WalletError(Coalesce(errorField(res.json.body), "Failed to create wallet"),
                              ErrorCodes.WALLET_CREATION_FAILED, Undefined))
    ELSE Resolved([network |-> this.network] @@ res.json.body)

createWalletRequest(this, nowText) ==
    [url     |-> this.baseUrl \o "/2022-06-09/wallets",
     method  |-> "POST",
     headers |-> [ContentType |-> Some("application/json"), XApiKey |-> this.apiKey],
     body    |-> Some([type |-> "custodial", chain |-> chainOf(this),
                       linkedUser |-> "email:test-" \o nowText \o "@example.com"])]

\* mutant of getWalletOf: a 404 answer is handled like any other failure
getWalletOf_no404(this, address, res) ==
    IF res.kind = "throw"
    THEN walletFailure("Wallet not found", ErrorCodes.WALLET_NOT_FOUND, res.thrown)
    ELSE IF res.json.kind = "throw"
    THEN walletFailure("Wallet not found", ErrorCodes.WALLET_NOT_FOUND, res.json.thrown)
    ELSE IF ~ok(res)
    THEN Rejected(WalletError(Coalesce(errorField(res.json.body), "Failed to get wallet"),
                              ErrorCodes.WALLET_NOT_FOUND, Undefined))
    ELSE Resolved([network |-> this.network] @@ res.json.body)

\* getWallet(address) on the instance `this`, with `res` the way fetch settles
getWalletOf(this, address, res) ==
    IF res.kind = "throw"
    THEN walletFailure("Wallet not found", ErrorCodes.WALLET_NOT_FOUND, res.thrown)
    ELSE IF ~ok(res) /\ res.status = HTTP_NOT_FOUND
    THEN Rejected(WalletError("Wallet not found", ErrorCodes.WALLET_NOT_FOUND, Undefined))
    ELSE IF res.json.kind = "throw"
    THEN walletFailure("Wallet not found", ErrorCodes.WALLET_NOT_FOUND, res.json.thrown)
    ELSE IF ~ok(res)
    THEN Rejected(WalletError(Coalesce(errorField(res.json.body), "Failed to get wallet"),
                              ErrorCodes.WALLET_NOT_FOUND, Undefined))
    ELSE Resolved([network |-> this.network] @@ res.json.body)

getWalletRequest(this, address) ==
    [url     |-> this.baseUrl \o "/v1-alpha2/wallets/" \o chainOf(this) \o ":" \o address,
     method  |-> "GET",
     headers |-> [ContentType |-> Undefined, XApiKey |-> this.apiKey],
     body    |-> Undefined]

\* the locator of a wallet in a URL: `${chain}:${address}`
walletLocator(this, address) == chainOf(this) \o ":" \o address

SignerConfigs == { [type |-> "ed25519", publicKey |-> "GDNEWSIGNER12345", role |-> "standard"] }

SignerPublicKeys == {"GSIGNER456"}

TxXdrs == {"ORIGINAL_XDR"}

SignerPublicKeyOptions == {Undefined, Some("GSPECIFIC_SIGNER")}

\* addSigner(address, signer) on the instance `this`
addSignerOf(this, address, signer, res) ==
    IF res.kind = "throw"
    THEN walletFailure("Failed to add signer", ErrorCodes.INVALID_SIGNER, res.thrown)
    ELSE IF res.json.kind = "throw"
    THEN walletFailure("Failed to add signer", ErrorCodes.INVALID_SIGNER, res.json.thrown)
    ELSE IF ~ok(res)
    THEN Rejected(WalletError(Coalesce(errorField(res.json.body), "Failed to add signer"),
                              ErrorCodes.INVALID_SIGNER, Undefined))
    ELSE Resolved(res.json.body)

addSignerRequest(this, address, signer) ==
    [url     |-> this.baseUrl \o "/v1-alpha2/wallets/" \o walletLocator(this, address)
                   \o "/signers",
     method  |-> "POST",
     headers |-> [ContentType |-> Some("application/json"), XApiKey |-> this.apiKey],
     body    |-> Some(signer)]

\* removeSigner(address, signerPublicKey) on the instance `this`
removeSignerOf(this, address, signerPublicKey, res) ==
    IF res.kind = "throw"
    THEN walletFailure("Failed to remove signer", ErrorCodes.SIGNER_NOT_FOUND, res.thrown)
    ELSE IF res.json.kind = "throw"
    THEN walletFailure("Failed to remove signer", ErrorCodes.SIGNER_NOT_FOUND, res.json.thrown)
    ELSE IF ~ok(res)
    THEN Rejected(WalletError(Coalesce(errorField(res.json.body), "Failed to remove signer"),
                              ErrorCodes.SIGNER_NOT_FOUND, Undefined))
    ELSE Resolved(res.json.body)

removeSignerRequest(this, address, signerPublicKey) ==
    [url     |-> this.baseUrl \o "/v1-alpha2/wallets/" \o walletLocator(this, address)
                   \o "/signers/" \o signerPublicKey,
     method  |-> "DELETE",
     headers |-> [ContentType |-> Undefined, XApiKey |-> this.apiKey],
     body    |-> Undefined]

\* the body of a request to the transactions endpoint; JSON.stringify leaves
\* out a key whose value is undefined
transactionBody(transaction, signerPublicKey, submit) ==
    [transaction |-> transaction, signerPublicKey |-> signerPublicKey, submit |-> submit]

\* signTransaction(txXdr, signerPublicKey) on the instance `this`
signTransactionOf(this, txXdr, signerPublicKey, res) ==
    IF res.kind = "throw"
    THEN walletFailure("Failed to sign transaction", ErrorCodes.SIGNATURE_FAILED, res.thrown)
    ELSE IF res.json.kind = "throw"
    THEN walletFailure("Failed to sign transaction", ErrorCodes.SIGNATURE_FAILED,
                       res.json.thrown)
    ELSE IF ~ok(res)
    THEN Rejected(WalletError(Coalesce(errorField(res.json.body), "Failed to sign transaction"),
                              ErrorCodes.SIGNATURE_FAILED, Undefined))
    ELSE Resolved(res.json.body)

signTransactionRequest(this, txXdr, signerPublicKey) ==
    [url     |-> this.baseUrl \o "/v1-alpha2/wallets/" \o chainOf(this) \o "/transactions",
     method  |-> "POST",
     headers |-> [ContentType |-> Some("application/json"), XApiKey |-> this.apiKey],
     body    |-> Some(transactionBody(Some(txXdr), signerPublicKey, Undefined))]

\* signedTx.signedXdr of the parsed answer of the signing request
signedXdrOf(signedTx) ==
    IF "signedXdr" \in DOMAIN signedTx THEN Some(signedTx.signedXdr) ELSE Undefined

\* the second half of executeTransaction: the submit request and its answer
submitOf(res) ==
    IF res.kind = "throw"
    THEN walletFailure("Failed to execute transaction", ErrorCodes.TX_SUBMISSION_FAILED,
                       res.thrown)
    ELSE IF res.json.kind = "throw"
    THEN walletFailure("Failed to execute transaction", ErrorCodes.TX_SUBMISSION_FAILED,
                       res.json.thrown)
    ELSE IF ~ok(res)
    THEN Rejected(WalletError(Coalesce(errorField(res.json.body),
                                       "Failed to submit transaction"),
                              ErrorCodes.TX_SUBMISSION_FAILED, Undefined))
    ELSE Resolved(res.json.body)

submitRequest(this, signedXdr) ==
    [url     |-> this.baseUrl \o "/v1-alpha2/wallets/" \o chainOf(this) \o "/transactions",
     method  |-> "POST",
     headers |-> [ContentType |-> Some("application/json"), XApiKey |-> this.apiKey],
     body    |-> Some(transactionBody(signedXdr, Undefined, Some(TRUE)))]

\* mutant of executeTransactionOf: a failed sign request is issued once more
executeTransactionOf_resign(this, txXdr, signRes) ==
    LET signedTx == signTransactionOf(this, txXdr, Undefined, signRes)
        signReq  == signTransactionRequest(this, txXdr, Undefined)
    IN  IF signedTx.status = "rejected"
        THEN { [outcome |-> signedTx, signed |-> signedTx, requests |-> <<signReq, signReq>>,
                responses |-> <<signRes, signRes>>] }
        ELSE { [outcome   |-> submitOf(submitRes),
                signed    |-> signedTx,
                requests  |-> <<signReq, submitRequest(this, signedXdrOf(signedTx.value))>>,
                responses |-> <<signRes, submitRes>>] :
                 submitRes \in FetchOutcomes }

\* mutant of executeTransactionOf: the transaction is submitted as it was given
executeTransactionOf_unsigned(this, txXdr, signRes) ==
    LET signedTx == signTransactionOf(this, txXdr, Undefined, signRes)
        signReq  == signTransactionRequest(this, txXdr, Undefined)
    IN  IF signedTx.status = "rejected"
        THEN { [outcome |-> signedTx, signed |-> signedTx, requests |-> <<signReq>>,
                responses |-> <<signRes>>] }
        ELSE { [outcome   |-> submitOf(submitRes),
                signed    |-> signedTx,
                requests  |-> <<signReq, submitRequest(this, Some(txXdr))>>,
                responses |-> <<signRes, submitRes>>] :
                 submitRes \in FetchOutcomes }

\* executeTransaction(txXdr) on the instance `this`, with `signRes` the way the
\* fetch of signTransaction settles: every way the call can settle, one for
\* each way the submitting fetch can settle when it is reached.  A rejection
\* of signTransaction leaves the method before its try block.
executeTransactionOf(this, txXdr, signRes) ==
    LET signedTx == signTransactionOf(this, txXdr, Undefined, signRes)
        signReq  == signTransactionRequest(this, txXdr, Undefined)
    IN  IF signedTx.status = "rejected"
        THEN { [outcome |-> signedTx, signed |-> signedTx, requests |-> <<signReq>>,
                responses |-> <<signRes>>] }
        ELSE { [outcome   |-> submitOf(submitRes),
                signed    |-> signedTx,
                requests  |-> <<signReq, submitRequest(this, signedXdrOf(signedTx.value))>>,
                responses |-> <<signRes, submitRes>>] :
                 submitRes \in FetchOutcomes }

\* getBalances(address) on the instance `this`
getBalancesOf(this, address, res) ==
    IF res.kind = "throw"
    THEN walletFailure("Failed to get balances", ErrorCodes.WALLET_NOT_FOUND, res.thrown)
    ELSE IF res.json.kind = "throw"
    THEN walletFailure("Failed to get balances", ErrorCodes.WALLET_NOT_FOUND, res.json.thrown)
    ELSE IF ~ok(res)
    THEN Rejected(WalletError(Coalesce(errorField(res.json.body), "Failed to get balances"),
                              ErrorCodes.WALLET_NOT_FOUND, Undefined))
    ELSE Resolved(res.json.body)

\* the body is JSON.stringify({}), the object without keys
getBalancesRequest(this, address) ==
    [url     |-> this.baseUrl \o "/v1-alpha2/wallets/" \o walletLocator(this, address)
                   \o "/balances",
     method  |-> "POST",
     headers |-> [ContentType |-> Some("application/json"), XApiKey |-> this.apiKey],
     body    |-> Some(<<>>)]

\* the authenticated StellarWallet objects of the vendor SDK that a caller holds
StellarWallets == { [isNull |-> FALSE, address |-> a] : a \in {"GADDR123", "GADDR456"} }

SendTransactionParams ==
    [contractId : {VALID_TOKEN_A}, method : {Some("transfer")}, args : {Undefined},
     transaction : {Undefined, Some("ORIGINAL_XDR")}]

\* the settled promise of stellarWallet.sendTransaction(...)
SendTransactionOutcomes ==
    { [kind |-> "throw", thrown |-> t] : t \in ThrownValues }
    \cup { [kind |-> "result", hash |-> h, explorerLink |-> l] :
             h \in {Undefined, Some("TX_HASH_123")},
             l \in {Undefined, Some("https://stellar.expert/tx/TX_HASH_123")} }

\* mutant of sendTransactionViaSdkOf: the stellarWallet field is not tested, and
\* the call on null throws a TypeError inside the try block
sendTransactionViaSdkOf_unguarded(this, params) ==
    IF this.stellarWallet.isNull
    THEN { [outcome  |-> walletFailure("Failed to send transaction via SDK",
                                       ErrorCodes.TX_SUBMISSION_FAILED,
                                       [isError |-> TRUE, name |-> "TypeError",
                                        message |-> "Cannot read properties of null"]),
            thrown   |-> Some([isError |-> TRUE, name |-> "TypeError",
                               message |-> "Cannot read properties of null"]),
            answer   |-> [kind |-> "none"],
            requests |-> <<>>] }
    ELSE { [outcome  |-> IF sdk.kind = "throw"
                         THEN walletFailure("Failed to send transaction via SDK",
                                            ErrorCodes.TX_SUBMISSION_FAILED, sdk.thrown)
                         ELSE Resolved([hash |-> Coalesce(sdk.hash, ""),
                                        explorerLink |-> sdk.explorerLink]),
            thrown   |-> IF sdk.kind = "throw" THEN Some(sdk.thrown) ELSE Undefined,
            answer   |-> sdk,
            requests |-> <<[receiver |-> this.stellarWallet,
                            request  |-> [contractId |-> params.contractId,
                                          method |-> params.method,
                                          args |-> params.args,
                                          transaction |-> params.transaction]]>>] :
             sdk \in SendTransactionOutcomes }

\* mutant of sendTransactionViaSdkOf: the hash of the StellarWallet's answer is
\* returned as it came, without the default for an absent hash
sendTransactionViaSdkOf_rawHash(this, params) ==
    IF this.stellarWallet.isNull
    THEN { [outcome  |-> Rejected(WalletError(
                           "No StellarWallet set. Use setStellarWallet() first or use signTransaction() for server-side.",
                           ErrorCodes.WALLET_NOT_FOUND, Undefined)),
            thrown   |-> Undefined,
            answer   |-> [kind |-> "none"],
            requests |-> <<>>] }
    ELSE { [outcome  |-> IF sdk.kind = "throw"
                         THEN walletFailure("Failed to send transaction via SDK",
                                            ErrorCodes.TX_SUBMISSION_FAILED, sdk.thrown)
                         ELSE Resolved([hash |-> sdk.hash,
                                        explorerLink |-> sdk.explorerLink]),
            thrown   |-> IF sdk.kind = "throw" THEN Some(sdk.thrown) ELSE Undefined,
            answer   |-> sdk,
            requests |-> <<[receiver |-> this.stellarWallet,
                            request  |-> [contractId |-> params.contractId,
                                          method |-> params.method,
                                          args |-> params.args,
                                          transaction |-> params.transaction]]>>] :
             sdk \in SendTransactionOutcomes }

\* sendTransactionViaSdk(params) on the instance `this`: every way the call
\* can settle, with the requests the StellarWallet received
sendTransactionViaSdkOf(this, params) ==
    IF this.stellarWallet.isNull
    THEN { [outcome  |-> Rejected(WalletError(
                           "No StellarWallet set. Use setStellarWallet() first or use signTransaction() for server-side.",
                           ErrorCodes.WALLET_NOT_FOUND, Undefined)),
            thrown   |-> Undefined,
            answer   |-> [kind |-> "none"],
            requests |-> <<>>] }
    ELSE { [outcome  |-> IF sdk.kind = "throw"
                         THEN walletFailure("Failed to send transaction via SDK",
                                            ErrorCodes.TX_SUBMISSION_FAILED, sdk.thrown)
                         ELSE Resolved([hash |-> Coalesce(sdk.hash, ""),
                                        explorerLink |-> sdk.explorerLink]),
            thrown   |-> IF sdk.kind = "throw" THEN Some(sdk.thrown) ELSE Undefined,
            answer   |-> sdk,
            requests |-> <<[receiver |-> this.stellarWallet,
                            request  |-> [contractId |-> params.contractId,
                                          method |-> params.method,
                                          args |-> params.args,
                                          transaction |-> params.transaction]]>>] :
             sdk \in SendTransactionOutcomes }

\* the CrossmintWallet instances the caller can call: its own, and client.wallet
WalletInstances ==
    (IF wallet.isNull THEN {} ELSE {wallet})
    \cup (IF client.isNull THEN {} ELSE {client.wallet})

NewCrossmintWallet ==
    /\ Idle
    /\ \E config \in CrossmintWalletConfigs :
         LET r == newCrossmintWallet(config)
         IN  /\ call' = [op |-> "new CrossmintWallet", params |-> config,
                         outcome |-> IF r.threw THEN Rejected(r.error) ELSE Resolved("instance")]
             /\ wallet' = IF r.threw THEN wallet ELSE r.instance
    /\ UNCHANGED <<client, sdkCalls, fetchCalls>>
    /\ UNCHANGED demoVars

NewStellarDefiClient ==
    /\ Idle
    /\ \E config \in StellarDefiConfigs :
         LET r == newStellarDefiClient(config)
         IN  /\ call' = [op |-> "new StellarDefiClient", params |-> config,
                         outcome |-> IF r.threw THEN Rejected(r.error) ELSE Resolved("instance")]
             /\ client' = IF r.threw THEN client ELSE r.instance
    /\ UNCHANGED <<wallet, sdkCalls, fetchCalls>>
    /\ UNCHANGED demoVars

createWallet ==
    /\ Idle
    /\ \E this \in WalletInstances : \E res \in FetchOutcomes : \E nowText \in DateNowTexts :
         /\ call' = [op |-> "createWallet", this |-> this,
                     params |-> [signerType |-> "ed25519"],
                     response |-> res,
                     outcome |-> createWalletOf(this, res)]
         /\ fetchCalls' = <<createWalletRequest(this, nowText)>>
    /\ UNCHANGED <<wallet, client, sdkCalls>>
    /\ UNCHANGED demoVars

getWallet ==
    /\ Idle
    /\ \E this \in WalletInstances : \E address \in WalletAddresses : \E res \in FetchOutcomes :
         /\ call' = [op |-> "getWallet", this |-> this, params |-> [address |-> address],
                     response |-> res,
                     outcome |-> getWalletOf(this, address, res)]
         /\ fetchCalls' = <<getWalletRequest(this, address)>>
    /\ UNCHANGED <<wallet, client, sdkCalls>>
    /\ UNCHANGED demoVars

addSigner ==
    /\ Idle
    /\ \E this \in WalletInstances : \E signer \in SignerConfigs : \E res \in FetchOutcomes :
         /\ call' = [op |-> "addSigner", this |-> this,
                     params |-> [address |-> "GADDR123", signer |-> signer],
                     response |-> res,
                     outcome |-> addSignerOf(this, "GADDR123", signer, res)]
         /\ fetchCalls' = <<addSignerRequest(this, "GADDR123", signer)>>
    /\ UNCHANGED <<wallet, client, sdkCalls>>
    /\ UNCHANGED demoVars

removeSigner ==
    /\ Idle
    /\ \E this \in WalletInstances : \E key \in SignerPublicKeys : \E res \in FetchOutcomes :
         /\ call' = [op |-> "removeSigner", this |-> this,
                     params |-> [address |-> "GADDR123", signerPublicKey |-> key],
                     response |-> res,
                     outcome |-> removeSignerOf(this, "GADDR123", key, res)]
         /\ fetchCalls' = <<removeSignerRequest(this, "GADDR123", key)>>
    /\ UNCHANGED <<wallet, client, sdkCalls>>
    /\ UNCHANGED demoVars

signTransaction ==
    /\ Idle
    /\ \E this \in WalletInstances : \E txXdr \in TxXdrs :
       \E key \in SignerPublicKeyOptions : \E res \in FetchOutcomes :
         /\ call' = [op |-> "signTransaction", this |-> this,
                     params |-> [txXdr |-> txXdr, signerPublicKey |-> key],
                     response |-> res,
                     outcome |-> signTransactionOf(this, txXdr, key, res)]
         /\ fetchCalls' = <<signTransactionRequest(this, txXdr, key)>>
    /\ UNCHANGED <<wallet, client, sdkCalls>>
    /\ UNCHANGED demoVars

executeTransaction ==
    /\ Idle
    /\ \E this \in WalletInstances : \E txXdr \in TxXdrs : \E signRes \in FetchOutcomes :
       \E r \in executeTransactionOf(this, txXdr, signRes) :
         /\ call' = [op |-> "executeTransaction", this |-> this,
                     params |-> [txXdr |-> txXdr],
                     signed |-> r.signed, responses |-> r.responses,
                     outcome |-> r.outcome]
         /\ fetchCalls' = r.requests
    /\ UNCHANGED <<wallet, client, sdkCalls>>
    /\ UNCHANGED demoVars

getBalances ==
    /\ Idle
    /\ \E this \in WalletInstances : \E address \in WalletAddresses : \E res \in FetchOutcomes :
         /\ call' = [op |-> "getBalances", this |-> this, params |-> [address |-> address],
                     response |-> res,
                     outcome |-> getBalancesOf(this, address, res)]
         /\ fetchCalls' = <<getBalancesRequest(this, address)>>
    /\ UNCHANGED <<wallet, client, sdkCalls>>
    /\ UNCHANGED demoVars

\* setStellarWallet(wallet) on the caller's own CrossmintWallet or on
\* client.wallet: the one assignment to a field outside a constructor
setStellarWallet ==
    /\ Idle
    /\ \E w \in StellarWallets :
         \/ /\ ~wallet.isNull
            /\ wallet' = [wallet EXCEPT !.stellarWallet = w]
            /\ client' = client
            /\ call' = [op |-> "setStellarWallet", this |-> wallet, params |-> [wallet |-> w],
                        outcome |-> Resolved(Undefined)]
         \/ /\ ~client.isNull
            /\ client' = [client EXCEPT !.wallet.stellarWallet = w]
            /\ wallet' = wallet
            /\ call' = [op |-> "setStellarWallet", this |-> client.wallet,
                        params |-> [wallet |-> w], outcome |-> Resolved(Undefined)]
    /\ UNCHANGED <<sdkCalls, fetchCalls>>
    /\ UNCHANGED demoVars

sendTransactionViaSdk ==
    /\ Idle
    /\ \E this \in WalletInstances : \E params \in SendTransactionParams :
       \E r \in sendTransactionViaSdkOf(this, params) :
         /\ call' = [op |-> "sendTransactionViaSdk", this |-> this, params |-> params,
                     thrown |-> r.thrown, answer |-> r.answer, outcome |-> r.outcome]
         /\ sdkCalls' = r.requests
    /\ UNCHANGED <<wallet, client, fetchCalls>>
    /\ UNCHANGED demoVars

\* vi.clearAllMocks(): the caller has consumed the settled promise and the
\* recorded requests are dropped before the next call
clearAllMocks ==
    /\ ~Idle
    /\ call' = NoCall
    /\ sdkCalls' = <<>>
    /\ fetchCalls' = <<>>
    /\ UNCHANGED <<wallet, client>>
    /\ UNCHANGED demoVars

(***************************************************************************)
(* DefindexYield                                                           *)
(* Its operations read no field of the instance and reach no network.      *)
(***************************************************************************)

VALID_VAULT == "CDTESTVAULT123456789012345678901234567890123456789012345"

\* the valid address and the invalid ones of the tests: too short with and
\* without the prefix, wrong prefix, empty
VaultAddresses ==
    { VALID_VAULT, "INVALID", "CINVALID",
      "GDTESTVAULT123456789012345678901234567890123456789012345", "" }

\* mutant of DefindexYield_isValidAddress: the prefix is not looked at
DefindexYield_isValidAddress_lengthOnly(address) == Len(address) = ADDRESS_LENGTH

\* DefindexYield's own private isValidAddress
DefindexYield_isValidAddress(address) ==
    Len(address) = ADDRESS_LENGTH /\ startsWith(address, "C")

invalidVault == Rejected(YieldError("Invalid vault address", ErrorCodes.VAULT_NOT_FOUND, Undefined))

\* getVaults(): no vault is known
getVaultsOf == Resolved(<<>>)

\* the VaultDetail that getVault returns for every valid address.  tvl is
\* 1000000000000n, wider than the integers of the model, and is kept as its
\* decimal text; apy and the allocations are kept in hundredths.
vaultDetail(address) ==
    [address |-> address,
     name |-> "Test Vault",
     symbol |-> "dfTEST",
     assets |-> << [address |-> "CDLZFC3SYJYDZT7K67VZ75HPJVIEUVNIXF47ZG2FB2RMQQVU2HHGCYSC",
                    symbol |-> "XLM", name |-> "Stellar Lumens", decimals |-> 7,
                    allocation |-> 100] >>,
     strategies |-> << [address |-> "CSTRATEGY12345678901234567890123456789012345678901234",
                        name |-> "Blend Strategy", type |-> "blend", allocation |-> 100,
                        apy |-> 550] >>,
     tvl |-> "1000000000000",
     totalShares |-> 1000000000,
     apy |-> 550,
     manager |-> "GDMANAGER123456789",
     emergencyManager |-> "GDEMERGENCY123456789",
     feeReceiver |-> "GDFEES123456789",
     performanceFee |-> 10,
     managementFee |-> 2]

\* getVault(address)
getVaultOf(address) ==
    IF ~DefindexYield_isValidAddress(address) THEN invalidVault
    ELSE Resolved(vaultDetail(address))

\* getVaultBalance(vault, user)
getVaultBalanceOf(vault, user) ==
    Resolved([vault |-> vault, shares |-> 0, value |-> 0, assets |-> <<>>])

\* getEstimatedAPY(vault): a rejection of getVault is caught and wrapped again
getEstimatedAPYOf(vault) ==
    LET vaultDetailOutcome == getVaultOf(vault)
    IN  IF vaultDetailOutcome.status = "rejected"
        THEN Rejected(YieldError("Failed to get APY", ErrorCodes.VAULT_NOT_FOUND,
                                 Some(vaultDetailOutcome.error)))
        ELSE Resolved(vaultDetailOutcome.value.apy)

\* params.amounts.map((a) => a.toString())
RECURSIVE mapToString(_)
mapToString(amounts) ==
    IF amounts = <<>> THEN <<>>
    ELSE <<toString(Head(amounts))>> \o mapToString(Tail(amounts))

\* mutant of buildDepositTransactionOf: the defaults are applied with ||, so
\* that a given 0 or false is replaced as well
buildDepositTransactionOf_falsyDefaults(params) ==
    IF ~DefindexYield_isValidAddress(params.vault) THEN invalidVault
    ELSE Resolved([type |-> "deposit",
                   vault |-> params.vault,
                   amounts |-> mapToString(params.amounts),
                   minShares |-> "0",
                   to |-> params.sourceAddress,
                   invest |-> Coalesce(params.invest, FALSE),
                   slippageBps |-> IF params.slippageBps = Undefined \/ params.slippageBps[1] = 0
                                   THEN DEFAULT_SLIPPAGE_BPS
                                   ELSE params.slippageBps[1]])

\* buildDepositTransaction(params): the rejection, or the placeholder payload
buildDepositTransactionOf(params) ==
    IF ~DefindexYield_isValidAddress(params.vault) THEN invalidVault
    ELSE Resolved([type |-> "deposit",
                   vault |-> params.vault,
                   amounts |-> mapToString(params.amounts),
                   minShares |-> "0",
                   to |-> params.sourceAddress,
                   invest |-> Coalesce(params.invest, FALSE),
                   slippageBps |-> Coalesce(params.slippageBps, DEFAULT_SLIPPAGE_BPS)])

\* buildWithdrawTransaction(params): the rejection, or the placeholder payload
buildWithdrawTransactionOf(params) ==
    IF ~DefindexYield_isValidAddress(params.vault) THEN invalidVault
    ELSE Resolved([type |-> "withdraw",
                   vault |-> params.vault,
                   shares |-> toString(params.shares),
                   minAmounts |-> <<>>,
                   to |-> params.sourceAddress,
                   withdrawAssets |-> Coalesce(params.withdrawAssets, <<>>),
                   slippageBps |-> Coalesce(params.slippageBps, DEFAULT_SLIPPAGE_BPS)])

InvestOptions == {Undefined, Some(TRUE)}

DepositParams ==
    [vault : VaultAddresses,
     amounts : {<<>>, <<1000000000>>, <<-1>>, <<1, 0>>},
     sourceAddress : SourceAddresses,
     slippageBps : {Undefined, Some(0), Some(200)},
     invest : InvestOptions \cup {Some(FALSE)}]

WithdrawParams ==
    [vault : VaultAddresses,
     shares : {-1, 0, 500000000},
     sourceAddress : SourceAddresses,
     slippageBps : {Undefined, Some(0), Some(200)},
     withdrawAssets : {Undefined, Some(<<VALID_TOKEN_A>>)}]

getVaults ==
    /\ Idle
    /\ call' = [op |-> "getVaults", params |-> <<>>, outcome |-> getVaultsOf]
    /\ sdkCalls' = <<>>
    /\ UNCHANGED <<wallet, client, fetchCalls>>
    /\ UNCHANGED demoVars

getVault ==
    /\ Idle
    /\ \E address \in VaultAddresses :
         call' = [op |-> "getVault", params |-> [address |-> address],
                  outcome |-> getVaultOf(address)]
    /\ sdkCalls' = <<>>
    /\ UNCHANGED <<wallet, client, fetchCalls>>
    /\ UNCHANGED demoVars

getVaultBalance ==
    /\ Idle
    /\ \E vault \in VaultAddresses : \E user \in SourceAddresses :
         call' = [op |-> "getVaultBalance", params |-> [vault |-> vault, user |-> user],
                  outcome |-> getVaultBalanceOf(vault, user)]
    /\ sdkCalls' = <<>>
    /\ UNCHANGED <<wallet, client, fetchCalls>>
    /\ UNCHANGED demoVars

getEstimatedAPY ==
    /\ Idle
    /\ \E vault \in VaultAddresses :
         call' = [op |-> "getEstimatedAPY", params |-> [vault |-> vault],
                  outcome |-> getEstimatedAPYOf(vault)]
    /\ sdkCalls' = <<>>
    /\ UNCHANGED <<wallet, client, fetchCalls>>
    /\ UNCHANGED demoVars

buildDepositTransaction ==
    /\ Idle
    /\ \E params \in DepositParams :
         call' = [op |-> "buildDepositTransaction", params |-> params,
                  outcome |-> buildDepositTransactionOf(params)]
    /\ sdkCalls' = <<>>
    /\ UNCHANGED <<wallet, client, fetchCalls>>
    /\ UNCHANGED demoVars

buildWithdrawTransaction ==
    /\ Idle
    /\ \E params \in WithdrawParams :
         call' = [op |-> "buildWithdrawTransaction", params |-> params,
                  outcome |-> buildWithdrawTransactionOf(params)]
    /\ sdkCalls' = <<>>
    /\ UNCHANGED <<wallet, client, fetchCalls>>
    /\ UNCHANGED demoVars

(***************************************************************************)
(* StellarDefiClient: swapAndDeposit and withdrawAndSwap                   *)
(* Each gives the ways a call can settle as [outcome, steps, requests]:    *)
(* `steps` lists the sub-client calls in the order they were awaited, each *)
(* with the way it settled, and `requests` the requests the SoroswapSDK    *)
(* received.                                                               *)
(***************************************************************************)

step(op, settled) == [op |-> op, status |-> settled.status]

SwapAndDepositParams ==
    [sourceAddress : SourceAddresses,
     tokenIn : {VALID_TOKEN_A, "CINVALID"},
     tokenOut : {VALID_TOKEN_B},
     amountIn : {1000000000},
     vault : {VALID_VAULT, "INVALID"},
     slippageBps : {Undefined, Some(200)},
     invest : InvestOptions]

WithdrawAndSwapParams ==
    [sourceAddress : SourceAddresses,
     vault : {VALID_VAULT, "INVALID"},
     shares : {0, 500000000},
     tokenOut : {VALID_TOKEN_A, VALID_TOKEN_B, "CINVALID"},
     slippageBps : {Undefined, Some(200)}]

\* the arguments of the two DEX calls and of the deposit call of swapAndDeposit
swapQuoteParams(params) ==
    [tokenIn |-> params.tokenIn, tokenOut |-> params.tokenOut,
     amount |-> params.amountIn, tradeType |-> "EXACT_IN"]

swapBuildParams(params) ==
    [tokenIn |-> params.tokenIn, tokenOut |-> params.tokenOut,
     amount |-> params.amountIn, tradeType |-> "EXACT_IN",
     slippageBps |-> params.slippageBps, deadline |-> Undefined,
     sourceAddress |-> params.sourceAddress]

swapDepositParams(params, quote) ==
    [vault |-> params.vault, amounts |-> <<quote.amountOut>>,
     sourceAddress |-> params.sourceAddress, slippageBps |-> params.slippageBps,
     invest |-> params.invest]

\* mutant of depositStep: the deposit is seeded with the quote that
\* buildSwapTransaction obtained for itself
depositStep_fromSwapQuote(params, q, b) ==
    LET quote == b.quote.value
        d     == buildDepositTransactionOf(swapDepositParams(params, quote))
        steps == <<step("getQuote", q.outcome), step("buildSwapTransaction", b.outcome),
                   step("buildDepositTransaction", d)>>
    IN  [outcome  |-> IF d.status = "rejected" THEN d
                      ELSE Resolved([swapTxXdr |-> b.outcome.value,
                                     depositTxXdr |-> d.value,
                                     estimatedAmountOut |-> quote.amountOut,
                                     estimatedShares |-> 0]),
         steps    |-> steps,
         quote    |-> q.outcome,
         swapTx   |-> b.outcome,
         requests |-> q.requests \o b.requests]

\* mutant of depositStep: a failed deposit build is swallowed and the swap
\* transaction is handed to the caller
depositStep_swallowed(params, q, b) ==
    LET quote == q.outcome.value
        d     == buildDepositTransactionOf(swapDepositParams(params, quote))
        steps == <<step("getQuote", q.outcome), step("buildSwapTransaction", b.outcome),
                   step("buildDepositTransaction", d)>>
    IN  [outcome  |-> Resolved([swapTxXdr |-> b.outcome.value,
                                depositTxXdr |-> IF d.status = "rejected" THEN Undefined
                                                 ELSE Some(d.value),
                                estimatedAmountOut |-> quote.amountOut,
                                estimatedShares |-> 0]),
         steps    |-> steps,
         quote    |-> q.outcome,
         swapTx   |-> b.outcome,
         requests |-> q.requests \o b.requests]

\* what swapAndDeposit does once its quote and its swap transaction are there
depositStep(params, q, b) ==
    LET quote == q.outcome.value
        d     == buildDepositTransactionOf(swapDepositParams(params, quote))
        steps == <<step("getQuote", q.outcome), step("buildSwapTransaction", b.outcome),
                   step("buildDepositTransaction", d)>>
    IN  [outcome  |-> IF d.status = "rejected" THEN d
                      ELSE Resolved([swapTxXdr |-> b.outcome.value,
                                     depositTxXdr |-> d.value,
                                     estimatedAmountOut |-> quote.amountOut,
                                     estimatedShares |-> 0]),
         steps    |-> steps,
         quote    |-> q.outcome,
         swapTx   |-> b.outcome,
         requests |-> q.requests \o b.requests]

\* swapAndDeposit(params)
swapAndDepositOf(params, now) ==
    UNION { IF q.outcome.status = "rejected"
            THEN { [outcome |-> q.outcome, steps |-> <<step("getQuote", q.outcome)>>,
                    quote |-> q.outcome, swapTx |-> [status |-> "none"],
                    requests |-> q.requests] }
            ELSE { IF b.outcome.status = "rejected"
                   THEN [outcome |-> b.outcome,
                         steps |-> <<step("getQuote", q.outcome),
                                     step("buildSwapTransaction", b.outcome)>>,
                         quote |-> q.outcome, swapTx |-> b.outcome,
                         requests |-> q.requests \o b.requests]
                   ELSE depositStep(params, q, b) :
                     b \in swapOf(swapBuildParams(params), now) } :
            q \in quoteOf(swapQuoteParams(params)) }

\* vault.assets[0]?.address
vaultAssetOf(vault) ==
    IF Len(vault.assets) >= 1 THEN Some(vault.assets[1].address) ELSE Undefined

withdrawParamsOf(params) ==
    [vault |-> params.vault, shares |-> params.shares,
     sourceAddress |-> params.sourceAddress, slippageBps |-> params.slippageBps,
     withdrawAssets |-> Undefined]

\* mutant of withdrawSwapParams: the share count is taken as the exact output
withdrawSwapParams_exactOut(params, vaultAsset) ==
    [tokenIn |-> vaultAsset, tokenOut |-> params.tokenOut,
     amount |-> params.shares, tradeType |-> "EXACT_OUT",
     slippageBps |-> params.slippageBps, deadline |-> Undefined,
     sourceAddress |-> params.sourceAddress]

withdrawSwapParams(params, vaultAsset) ==
    [tokenIn |-> vaultAsset, tokenOut |-> params.tokenOut,
     amount |-> params.shares, tradeType |-> "EXACT_IN",
     slippageBps |-> params.slippageBps, deadline |-> Undefined,
     sourceAddress |-> params.sourceAddress]

\* withdrawAndSwap(params)
withdrawAndSwapOf(params, now) ==
    LET v == getVaultOf(params.vault)
        w == buildWithdrawTransactionOf(withdrawParamsOf(params))
        vaultAsset == vaultAssetOf(v.value)
        two == <<step("getVault", v), step("buildWithdrawTransaction", w)>>
    IN  IF v.status = "rejected"
        THEN { [outcome |-> v, steps |-> <<step("getVault", v)>>, requests |-> <<>>,
                swapParams |-> Undefined] }
        ELSE IF w.status = "rejected"
        THEN { [outcome |-> w, steps |-> two, requests |-> <<>>, swapParams |-> Undefined] }
        ELSE IF vaultAsset = Some(params.tokenOut)
        THEN { [outcome |-> Resolved([withdrawTxXdr |-> w.value, swapTxXdr |-> Undefined,
                                      estimatedAmountOut |-> params.shares]),
                steps |-> two, requests |-> <<>>, swapParams |-> Undefined] }
        ELSE IF vaultAsset = Undefined
        THEN { [outcome |-> Resolved([withdrawTxXdr |-> w.value, swapTxXdr |-> Undefined,
                                      estimatedAmountOut |-> params.shares]),
                steps |-> two, requests |-> <<>>, swapParams |-> Undefined] }
        ELSE { [outcome |-> IF b.outcome.status = "rejected" THEN b.outcome
                            ELSE Resolved([withdrawTxXdr |-> w.value,
                                           swapTxXdr |-> Some(b.outcome.value),
                                           estimatedAmountOut |-> params.shares]),
                steps |-> two \o <<step("buildSwapTransaction", b.outcome)>>,
                requests |-> b.requests,
                swapParams |-> Some(withdrawSwapParams(params, vaultAsset[1]))] :
                 b \in swapOf(withdrawSwapParams(params, vaultAsset[1]), now) }

swapAndDeposit ==
    /\ Idle
    /\ ~client.isNull
    /\ \E params \in SwapAndDepositParams : \E now \in NowSeconds :
       \E r \in swapAndDepositOf(params, now) :
         /\ call' = [op |-> "swapAndDeposit", params |-> params, steps |-> r.steps,
                     quote |-> r.quote, swapTx |-> r.swapTx, outcome |-> r.outcome]
         /\ sdkCalls' = r.requests
    /\ UNCHANGED <<wallet, client, fetchCalls>>
    /\ UNCHANGED demoVars

withdrawAndSwap ==
    /\ Idle
    /\ ~client.isNull
    /\ \E params \in WithdrawAndSwapParams : \E now \in NowSeconds :
       \E r \in withdrawAndSwapOf(params, now) :
         /\ call' = [op |-> "withdrawAndSwap", params |-> params, steps |-> r.steps,
                     swapParams |-> r.swapParams, outcome |-> r.outcome]
         /\ sdkCalls' = r.requests
    /\ UNCHANGED <<wallet, client, fetchCalls>>
    /\ UNCHANGED demoVars

(***************************************************************************)
(* The fee estimates as the tests compute them                             *)
(***************************************************************************)

EstimateAmounts == (0..MaxEstimateAmount) \cup {997000000, 1000000000}

\* the exact-in estimate of an amount, and the exact-out estimate of that
\* estimate
estimateRoundTrip ==
    /\ Idle
    /\ \E a \in EstimateAmounts :
         call' = [op |-> "estimateRoundTrip", params |-> [amount |-> a],
                  outcome |-> Resolved([amountOut |-> FlatFeeOut(a),
                                        amountIn  |-> FlatFeeIn(FlatFeeOut(a))])]
    /\ UNCHANGED <<wallet, client, sdkCalls, fetchCalls>>
    /\ UNCHANGED demoVars

(***************************************************************************)
(* demo: lib/sdk                                                           *)
(* `environment` holds the constants the module reads when it is loaded,   *)
(* `clientInstance` its singleton and `constructed` the number of          *)
(* StellarDefiClient objects built so far, which tells one object from     *)
(* another.                                                                *)
(***************************************************************************)

\* process.env as the module reads it (an unset variable is ''), and whether
\* `window` is defined
Environments ==
    [CROSSMINT_API_KEY : ApiKeys,
     SOROSWAP_API_KEY : {"", "soroswap-key"},
     NETWORK : Networks,
     window : BOOLEAN]

\* nothing is set and the module runs on the server
DefaultEnvironment ==
    [CROSSMINT_API_KEY |-> "", SOROSWAP_API_KEY |-> "", NETWORK |-> "testnet",
     window |-> FALSE]

getCrossmintBaseUrl(env) == IF env.window THEN Some("/api/crossmint") ELSE Undefined

JsError(message) == [isError |-> TRUE, name |-> "Error", message |-> message]

\* mutant of getClientOf: the stored instance is not looked at
getClientOf_alwaysNew(env, instance, n) ==
    IF env.CROSSMINT_API_KEY = "" \/ env.SOROSWAP_API_KEY = ""
    THEN [outcome |-> Rejected(JsError("API key is required")),
          clientInstance |-> instance, constructed |-> n]
    ELSE LET c == newStellarDefiClient(
                    [network |-> env.NETWORK,
                     crossmint |-> [apiKey |-> env.CROSSMINT_API_KEY,
                                    baseUrl |-> getCrossmintBaseUrl(env)],
                     soroswapApiKey |-> env.SOROSWAP_API_KEY])
             made == [isNull |-> FALSE, ref |-> n + 1, object |-> c.instance]
         IN  [outcome |-> Resolved(made), clientInstance |-> made, constructed |-> n + 1]

\* getClient(): what it returns or throws, and the singleton and the number
\* of constructions it leaves behind
getClientOf(env, instance, n) ==
    IF ~instance.isNull
    THEN [outcome |-> Resolved(instance), clientInstance |-> instance, constructed |-> n]
    ELSE IF env.CROSSMINT_API_KEY = ""
    THEN [outcome |-> Rejected(JsError("NEXT_PUBLIC_CROSSMINT_API_KEY is required")),
          clientInstance |-> instance, constructed |-> n]
    ELSE IF env.SOROSWAP_API_KEY = ""
    THEN [outcome |-> Rejected(JsError("NEXT_PUBLIC_SOROSWAP_API_KEY is required")),
          clientInstance |-> instance, constructed |-> n]
    ELSE LET c == newStellarDefiClient(
                    [network |-> env.NETWORK,
                     crossmint |-> [apiKey |-> env.CROSSMINT_API_KEY,
                                    baseUrl |-> getCrossmintBaseUrl(env)],
                     soroswapApiKey |-> env.SOROSWAP_API_KEY])
             made == [isNull |-> FALSE, ref |-> n + 1, object |-> c.instance]
         IN  IF c.threw
             THEN [outcome |-> Rejected(c.error), clientInstance |-> instance,
                   constructed |-> n]
             ELSE [outcome |-> Resolved(made), clientInstance |-> made,
                   constructed |-> n + 1]

getClient ==
    /\ Idle
    /\ constructed < MaxConstructions \/ ~clientInstance.isNull
    /\ LET r == getClientOf(environment, clientInstance, constructed)
       IN  /\ call' = [op |-> "getClient", outcome |-> r.outcome]
           /\ clientInstance' = r.clientInstance
           /\ constructed' = r.constructed
    /\ UNCHANGED <<wallet, client, sdkCalls, fetchCalls, environment, widget, inflight>>

resetClient ==
    /\ Idle
    /\ clientInstance' = Null
    /\ call' = [op |-> "resetClient", outcome |-> Resolved(Undefined)]
    /\ UNCHANGED <<wallet, client, sdkCalls, fetchCalls, environment, constructed, widget,
                   inflight>>

(***************************************************************************)
(* demo: SwapWidget                                                        *)
(* `widget` holds the useState values of the component and `inflight` the  *)
(* promise its handler is awaiting, with the values the handler captured   *)
(* when it was called.  null is written like undefined.                    *)
(***************************************************************************)

\* the two versions of the component in the repository: the one that builds
\* the swap transaction with the SDK and the one that sends it with the
\* Crossmint wallet; they differ in handleSwap only
WidgetFiles == {"SwapWidget.tsx", "part_007"}

TOKENS ==
    << [symbol |-> "XLM",
        address |-> "CAS3J7GYLGXMF6TDJBBYYSE3HQ6BBSMLNUQ34T6TZMYMW2EVH34XOWMA"],
       [symbol |-> "USDC",
        address |-> "CCW67TSZV3SSS2HXMBQ5JFGCKJNXKZM7UQUWUZPUTHXSTZLEO7SJMI75"] >>

ROUTER_CONTRACT == "CAG5LRYQ5JVEUI5TEID72EYOVX44TTUJT5BQR2J6J77FH65PCCFAJDDH"

\* TOKENS[index] with the indices 0 and 1 of the component
tokenAt(index) == TOKENS[index + 1]

TokenIndices == {0, 1}

\* what the user can have in the amount field; for these texts the product
\* parseFloat(text) * 10_000_000 is exact in double arithmetic
AmountTexts == {"", "0", "1", "2.5"}

\* useWallet(): the address of the connected wallet, if one is connected
WalletAddressOptions == {Undefined, Some("GDTEST123456789")}

\* the ways soroswapSdk.quote settles for the widget: a network failure, or
\* the flat-fee estimate of a direct route, or a different estimate
WidgetSdkQuoteOutcomes(params) ==
    { [kind |-> "throw",
       thrown |-> [isError |-> TRUE, name |-> "Error", message |-> "Network failure"]] }
    \cup
    { [kind |-> "response",
       amountIn  |-> toString(params.amount),
       amountOut |-> x,
       priceImpactPct |-> Some("0.5"),
       routePlan |-> Undefined] :
         x \in {toString(FlatFeeOut(params.amount)), "1000000000"} }

InitialWidget(file) ==
    [file |-> file, tokenInIndex |-> 0, tokenOutIndex |-> 1, amountIn |-> "",
     quote |-> Undefined, isLoading |-> FALSE, error |-> Undefined]

NoRequest == [kind |-> "none"]

\* BigInt(Math.floor(parseFloat(amountIn) * 10_000_000))
amountOf(text) == parseFloat(text).hundredths * 100000

\* err instanceof Error ? err.message : fallback; the error classes of the
\* SDK extend Error
messageOf(err, fallback) ==
    IF "isError" \in DOMAIN err /\ ~err.isError THEN fallback ELSE err.message

setAmountIn ==
    /\ \E text \in AmountTexts \ {widget.amountIn} :
         widget' = [widget EXCEPT !.amountIn = text, !.quote = Undefined]
    /\ UNCHANGED <<wallet, client, call, sdkCalls, fetchCalls, environment, clientInstance,
                   constructed, inflight>>

setTokenInIndex ==
    /\ \E index \in TokenIndices \ {widget.tokenInIndex} :
         widget' = [widget EXCEPT !.tokenInIndex = index, !.quote = Undefined]
    /\ UNCHANGED <<wallet, client, call, sdkCalls, fetchCalls, environment, clientInstance,
                   constructed, inflight>>

setTokenOutIndex ==
    /\ \E index \in TokenIndices \ {widget.tokenOutIndex} :
         widget' = [widget EXCEPT !.tokenOutIndex = index, !.quote = Undefined]
    /\ UNCHANGED <<wallet, client, call, sdkCalls, fetchCalls, environment, clientInstance,
                   constructed, inflight>>

switchTokens ==
    /\ widget' = [widget EXCEPT !.tokenInIndex = widget.tokenOutIndex,
                                !.tokenOutIndex = widget.tokenInIndex,
                                !.quote = Undefined]
    /\ UNCHANGED <<wallet, client, call, sdkCalls, fetchCalls, environment, clientInstance,
                   constructed, inflight>>

\* a click on Get Quote, up to the await: the button is rendered while there
\* is no quote and enabled while nothing is loading and the amount is not ''
handleGetQuote ==
    /\ widget.quote = Undefined /\ ~widget.isLoading /\ widget.amountIn # ""
    /\ ~(parseFloat(widget.amountIn).hundredths <= 0)
    /\ constructed < MaxConstructions \/ ~clientInstance.isNull
    /\ LET c == getClientOf(environment, clientInstance, constructed)
       IN  /\ clientInstance' = c.clientInstance
           /\ constructed' = c.constructed
           /\ IF c.outcome.status = "rejected"
              THEN /\ widget' = [widget EXCEPT
                                   !.isLoading = FALSE,
                                   !.error = Some(messageOf(c.outcome.error,
                                                            "Failed to get quote"))]
                   /\ inflight' = inflight
              ELSE /\ widget' = [widget EXCEPT !.isLoading = TRUE, !.error = Undefined]
                   /\ inflight' =
                        [kind |-> "getQuote",
                         params |-> [tokenIn |-> tokenAt(widget.tokenInIndex).address,
                                     tokenOut |-> tokenAt(widget.tokenOutIndex).address,
                                     amount |-> amountOf(widget.amountIn),
                                     tradeType |-> "EXACT_IN"]]
    /\ UNCHANGED <<wallet, client, call, sdkCalls, fetchCalls, environment>>

\* the rest of handleGetQuote, once client.dex.getQuote has settled
handleGetQuoteSettled ==
    /\ inflight.kind = "getQuote"
    /\ \E settled \in { r.outcome : r \in quoteWith(inflight.params,
                                                    WidgetSdkQuoteOutcomes(inflight.params)) } :
         widget' = IF settled.status = "resolved"
                   THEN [widget EXCEPT !.quote = Some(settled.value), !.isLoading = FALSE]
                   ELSE [widget EXCEPT
                           !.error = Some(messageOf(settled.error, "Failed to get quote")),
                           !.isLoading = FALSE]
    /\ inflight' = NoRequest
    /\ UNCHANGED <<wallet, client, call, sdkCalls, fetchCalls, environment, clientInstance,
                   constructed>>

\* a click on Swap in SwapWidget.tsx, up to the await: the button is rendered
\* while there is a quote and enabled while nothing is loading
handleSwap ==
    /\ widget.file = "SwapWidget.tsx"
    /\ widget.quote # Undefined /\ ~widget.isLoading
    /\ constructed < MaxConstructions \/ ~clientInstance.isNull
    /\ \E address \in WalletAddressOptions \ {Undefined} :
       LET c == getClientOf(environment, clientInstance, constructed)
       IN  /\ clientInstance' = c.clientInstance
           /\ constructed' = c.constructed
           /\ IF c.outcome.status = "rejected"
              THEN /\ widget' = [widget EXCEPT
                                   !.isLoading = FALSE,
                                   !.error = Some(messageOf(c.outcome.error,
                                                    "Failed to build swap transaction"))]
                   /\ inflight' = inflight
              ELSE /\ widget' = [widget EXCEPT !.isLoading = TRUE, !.error = Undefined]
                   /\ inflight' =
                        [kind |-> "buildSwapTransaction",
                         quote |-> widget.quote[1],
                         params |-> [tokenIn |-> tokenAt(widget.tokenInIndex).address,
                                     tokenOut |-> tokenAt(widget.tokenOutIndex).address,
                                     amount |-> widget.quote[1].amountIn,
                                     tradeType |-> "EXACT_IN",
                                     slippageBps |-> Some(100),
                                     deadline |-> Undefined,
                                     sourceAddress |-> address[1]]]
    /\ UNCHANGED <<wallet, client, call, sdkCalls, fetchCalls, environment>>

\* the rest of that handleSwap, once client.dex.buildSwapTransaction has
\* settled: the payload goes to the console, a failure into `error`
handleSwapSettled ==
    /\ inflight.kind = "buildSwapTransaction"
    /\ \E now \in NowSeconds :
       \E failure \in { IF r.outcome.status = "resolved" THEN Undefined
                         ELSE Some(messageOf(r.outcome.error,
                                             "Failed to build swap transaction")) :
                         r \in swapWith(inflight.params, now,
                                        WidgetSdkQuoteOutcomes(inflight.params)) } :
         widget' = IF failure = Undefined
                   THEN [widget EXCEPT !.isLoading = FALSE]
                   ELSE [widget EXCEPT !.error = failure, !.isLoading = FALSE]
    /\ inflight' = NoRequest
    /\ UNCHANGED <<wallet, client, call, sdkCalls, fetchCalls, environment, clientInstance,
                   constructed>>

\* a click on Swap in the version of part_007, up to the await: the request
\* handed to stellarWallet.sendTransaction
handleSwapViaWallet ==
    /\ widget.file = "part_007"
    /\ widget.quote # Undefined /\ ~widget.isLoading
    /\ \E address \in WalletAddressOptions \ {Undefined} : \E now \in NowSeconds :
         /\ widget' = [widget EXCEPT !.isLoading = TRUE, !.error = Undefined]
         /\ inflight' =
              [kind |-> "sendTransaction",
               quote |-> widget.quote[1],
               request |-> [contractId |-> ROUTER_CONTRACT,
                            method |-> "swap_exact_tokens_for_tokens",
                            args |-> [amount_in |-> "1000000",
                                      amount_out_min |-> "0",
                                      path |-> <<TOKENS[1].address, TOKENS[2].address>>,
                                      to |-> address[1],
                                      deadline |-> now + 3600]]]
    /\ UNCHANGED <<wallet, client, call, sdkCalls, fetchCalls, environment, clientInstance,
                   constructed>>

\* the rest of that handleSwap, once stellarWallet.sendTransaction has settled
handleSwapViaWalletSettled ==
    /\ inflight.kind = "sendTransaction"
    /\ \E tx \in SendTransactionOutcomes :
         widget' = IF tx.kind = "result"
                   THEN [widget EXCEPT !.quote = Undefined, !.amountIn = "",
                                       !.isLoading = FALSE]
                   ELSE [widget EXCEPT
                           !.error = Some(messageOf(tx.thrown, "Failed to execute swap")),
                           !.isLoading = FALSE]
    /\ inflight' = NoRequest
    /\ UNCHANGED <<wallet, client, call, sdkCalls, fetchCalls, environment, clientInstance,
                   constructed>>

(***************************************************************************)
(* Specifications                                                          *)
(***************************************************************************)

\* the SDK before any constructor has run; the demo application is loaded
\* without configuration and its widget is as first rendered
SdkInit ==
    /\ wallet = Null
    /\ client = Null
    /\ call = NoCall
    /\ sdkCalls = <<>>
    /\ fetchCalls = <<>>

DemoInit(envs, files) ==
    /\ environment \in envs
    /\ clientInstance = Null
    /\ constructed = 0
    /\ widget \in {InitialWidget(file) : file \in files}
    /\ inflight = NoRequest

Init == SdkInit /\ DemoInit({DefaultEnvironment}, {"SwapWidget.tsx"})

\* the lib/sdk module loaded in any environment
LibInit == SdkInit /\ DemoInit(Environments, {"SwapWidget.tsx"})

LibNext ==
    \/ getClient
    \/ resetClient
    \/ clearAllMocks

LibSpec == LibInit /\ [][LibNext]_vars

\* the widget in a browser, with or without the API keys configured
WidgetEnvironments ==
    { [DefaultEnvironment EXCEPT !.window = TRUE, !.CROSSMINT_API_KEY = k,
                                 !.SOROSWAP_API_KEY = "soroswap-key"] : k \in ApiKeys }

WidgetInit == SdkInit /\ DemoInit(WidgetEnvironments, WidgetFiles)

WidgetNext ==
    \/ setAmountIn
    \/ setTokenInIndex
    \/ setTokenOutIndex
    \/ switchTokens
    \/ handleGetQuote
    \/ handleGetQuoteSettled
    \/ handleSwap
    \/ handleSwapSettled
    \/ handleSwapViaWallet
    \/ handleSwapViaWalletSettled

WidgetSpec == WidgetInit /\ [][WidgetNext]_vars

DexNext ==
    \/ getQuote
    \/ buildSwapTransaction
    \/ buildAddLiquidityTransaction
    \/ buildRemoveLiquidityTransaction
    \/ getPools
    \/ getPool
    \/ getTokenBalance
    \/ clearAllMocks

WalletNext ==
    \/ NewCrossmintWallet
    \/ NewStellarDefiClient
    \/ createWallet
    \/ getWallet
    \/ addSigner
    \/ removeSigner
    \/ signTransaction
    \/ executeTransaction
    \/ getBalances
    \/ setStellarWallet
    \/ sendTransactionViaSdk
    \/ clearAllMocks

\* the facade: a StellarDefiClient and its two composite operations
ClientNext ==
    \/ NewStellarDefiClient
    \/ swapAndDeposit
    \/ withdrawAndSwap
    \/ clearAllMocks

\* every operation of the three sub-clients, on a CrossmintWallet of the caller
SdkNext ==
    \/ getQuote
    \/ buildSwapTransaction
    \/ buildAddLiquidityTransaction
    \/ buildRemoveLiquidityTransaction
    \/ getPools
    \/ getPool
    \/ getTokenBalance
    \/ NewCrossmintWallet
    \/ createWallet
    \/ getWallet
    \/ addSigner
    \/ removeSigner
    \/ signTransaction
    \/ executeTransaction
    \/ getBalances
    \/ setStellarWallet
    \/ sendTransactionViaSdk
    \/ getVaults
    \/ getVault
    \/ getVaultBalance
    \/ getEstimatedAPY
    \/ buildDepositTransaction
    \/ buildWithdrawTransaction
    \/ clearAllMocks

DexSpec == Init /\ [][DexNext]_vars

FeeNext ==
    \/ estimateRoundTrip
    \/ clearAllMocks

FeeSpec == Init /\ [][FeeNext]_vars

ClientSpec == Init /\ [][ClientNext]_vars

SdkSpec == Init /\ [][SdkNext]_vars

YieldNext ==
    \/ getVaults
    \/ getVault
    \/ getVaultBalance
    \/ getEstimatedAPY
    \/ buildDepositTransaction
    \/ buildWithdrawTransaction
    \/ clearAllMocks

YieldSpec == Init /\ [][YieldNext]_vars

WalletSpec == Init /\ [][WalletNext]_vars

(***************************************************************************)
(* Properties                                                              *)
(***************************************************************************)

Settled(op) == call.op = op /\ call.outcome.status = "resolved"

Failed(op) == call.op = op /\ call.outcome.status = "rejected"

\* the effective slippage of a transaction-build call
SlippageOf(params) == Coalesce(params.slippageBps, DEFAULT_SLIPPAGE_BPS)

\* the address rule as the specification states it: exactly 56 characters,
\* the first of them 'C'
MatchesAddressRule(address) ==
    Len(address) = 56 /\ SubSeq(address, 1, 1) = "C"

\* a decimal string of a payload read back as the tests do, with BigInt(...)
Decoded(text) == BigInt(text).value

\* C1: for slippage in 0..10000 and a non-negative amount the bound never
\* crosses the estimate: minimumReceived <= amountOut and maximumSent >=
\* amountIn in a quote, the payload's minimum amountOut <= the quote's
\* amountOut and its maximum amountIn >= the quote's amountIn in a swap
\* transaction, and amountAMin/amountBMin <= the desired amounts in an
\* add-liquidity transaction.
C1_BoundsNeverCrossEstimate ==
    /\ Settled("getQuote") =>
         LET q == call.outcome.value
         IN  /\ (q.minimumReceived # Undefined /\ q.amountOut >= 0)
                  => q.minimumReceived[1] <= q.amountOut
             /\ (q.maximumSent # Undefined /\ q.amountIn >= 0)
                  => q.maximumSent[1] >= q.amountIn
    /\ (Settled("buildSwapTransaction") /\ SlippageOf(call.params) \in 0..10000) =>
         LET tx == call.outcome.value
             q  == call.quote.value
         IN  /\ (call.params.tradeType = "EXACT_IN" /\ q.amountOut >= 0)
                  => Decoded(tx.amountOut) <= q.amountOut
             /\ (call.params.tradeType = "EXACT_OUT" /\ q.amountIn >= 0)
                  => Decoded(tx.amountIn) >= q.amountIn
    /\ (Settled("buildAddLiquidityTransaction") /\ SlippageOf(call.params) \in 0..10000) =>
         LET tx == call.outcome.value
         IN  /\ call.params.amountA >= 0 => Decoded(tx.amountAMin) <= call.params.amountA
             /\ call.params.amountB >= 0 => Decoded(tx.amountBMin) <= call.params.amountB

\* C1 witness: a swap transaction built with 2% slippage whose minimum
\* amountOut lies strictly below the quote's positive estimate
C1_Witness ==
    /\ Settled("buildSwapTransaction")
    /\ call.params.tradeType = "EXACT_IN"
    /\ call.params.slippageBps = Some(200)
    /\ call.quote.value.amountOut = 1000000000
    /\ Decoded(call.outcome.value.amountOut) = 980000000

\* C2: getQuote and buildSwapTransaction called with a tokenIn or tokenOut
\* that breaks the address rule reject with DexError INVALID_TOKEN having
\* issued no SDK or HTTP request; with two addresses that satisfy the rule
\* the call is never rejected as INVALID_TOKEN and the SDK is asked.
C2_InvalidTokenRejectedBeforeNetwork ==
    call.op \in {"getQuote", "buildSwapTransaction"} =>
        IF MatchesAddressRule(call.params.tokenIn) /\ MatchesAddressRule(call.params.tokenOut)
        THEN /\ Len(sdkCalls) = 1
             /\ call.outcome.status = "rejected"
                  => call.outcome.error.code # ErrorCodes.INVALID_TOKEN
        ELSE /\ call.outcome.status = "rejected"
             /\ call.outcome.error.name = "DexError"
             /\ call.outcome.error.code = "INVALID_TOKEN"
             /\ sdkCalls = <<>>
             /\ fetchCalls = <<>>

\* C2 witness: buildSwapTransaction rejected for a 56-character tokenIn with
\* the wrong prefix
C2_Witness ==
    /\ Failed("buildSwapTransaction")
    /\ Len(call.params.tokenIn) = 56
    /\ SubSeq(call.params.tokenIn, 1, 1) = "G"
    /\ call.params.tokenOut = VALID_TOKEN_B
    /\ call.outcome.error.code = "INVALID_TOKEN"

\* C3: a CrossmintWallet or StellarDefiClient constructor given an empty
\* API key throws ConfigurationError MISSING_API_KEY without any HTTP
\* request, and no wallet instance with an empty key exists, so every
\* createWallet call runs on an instance with a key.
C3_EmptyApiKeyFailsBeforeIO ==
    /\ (call.op = "new CrossmintWallet" /\ call.params.apiKey = "") =>
         /\ call.outcome.status = "rejected"
         /\ call.outcome.error.name = "ConfigurationError"
         /\ call.outcome.error.code = "MISSING_API_KEY"
         /\ fetchCalls = <<>>
    /\ (call.op = "new StellarDefiClient" /\ call.params.crossmint.apiKey = "") =>
         /\ call.outcome.status = "rejected"
         /\ call.outcome.error.name = "ConfigurationError"
         /\ call.outcome.error.code = "MISSING_API_KEY"
         /\ fetchCalls = <<>>
    /\ \A w \in WalletInstances : w.apiKey # ""
    /\ call.op = "createWallet" =>
         /\ call.this.apiKey # ""
         /\ fetchCalls[1].headers.XApiKey # ""

\* C3 witness: the StellarDefiClient constructor has thrown for an empty
\* crossmint key while the caller holds a wallet made with a key
C3_Witness ==
    /\ Failed("new StellarDefiClient")
    /\ call.params.crossmint.apiKey = ""
    /\ ~wallet.isNull
    /\ client.isNull

\* C4 as stated: on a 404 answer getWallet rejects with WalletError
\* WALLET_NOT_FOUND and the error's cause field is set.
C4_Original ==
    (call.op = "getWallet" /\ call.response.kind = "response"
       /\ call.response.status = 404) =>
        /\ call.outcome.status = "rejected"
        /\ call.outcome.error.name = "WalletError"
        /\ call.outcome.error.code = "WALLET_NOT_FOUND"
        /\ call.outcome.error.cause # Undefined

\* C4 amended: on a 404 answer getWallet rejects with WalletError
\* WALLET_NOT_FOUND for every address and network, and the error has no
\* cause, since no exception underlies a 404 answer; a rejected getWallet
\* carries a cause exactly when fetch or the parsing of the body threw an
\* Error, and the cause is that Error.
C4_NotFoundWithoutCause ==
    call.op = "getWallet" =>
        /\ (call.response.kind = "response" /\ call.response.status = 404) =>
             /\ call.outcome.status = "rejected"
             /\ call.outcome.error.name = "WalletError"
             /\ call.outcome.error.code = "WALLET_NOT_FOUND"
             /\ call.outcome.error.cause = Undefined
        /\ call.outcome.status = "rejected" =>
             LET thrown ==
                   IF call.response.kind = "throw" THEN Some(call.response.thrown)
                   ELSE IF call.response.status # 404 /\ call.response.json.kind = "throw"
                        THEN Some(call.response.json.thrown)
                        ELSE Undefined
             IN  call.outcome.error.cause =
                   (IF thrown # Undefined /\ thrown[1].isError THEN thrown ELSE Undefined)

\* C4 witness: a 404 answer whose body is no JSON, on a mainnet wallet
C4_Witness ==
    /\ Failed("getWallet")
    /\ call.this.network = "mainnet"
    /\ call.response.kind = "response"
    /\ call.response.status = 404
    /\ call.response.json.kind = "throw"
    /\ call.outcome.error.code = "WALLET_NOT_FOUND"

\* C5: every EXACT_IN getQuote with valid tokens and amount a >= 0 that
\* returns a quote returns amountOut = floor(a * 997 / 1000), whatever the
\* quoting backend answers.
C5_ExactInFlatFee ==
    (Settled("getQuote") /\ call.params.tradeType = "EXACT_IN" /\ call.params.amount >= 0) =>
        call.outcome.value.amountOut = FlatFeeOut(call.params.amount)

\* C6: every EXACT_OUT getQuote with valid tokens and amount b >= 0 that
\* returns a quote returns amountIn = floor(b * 1000 / 997) + 1, which is
\* strictly greater than amountOut.
C6_ExactOutFlatFee ==
    (Settled("getQuote") /\ call.params.tradeType = "EXACT_OUT" /\ call.params.amount >= 0) =>
        /\ call.outcome.value.amountIn = FlatFeeIn(call.params.amount)
        /\ call.outcome.value.amountIn > call.outcome.value.amountOut

\* C7: a quote carries the bounds of the default 100 bps slippage: EXACT_IN
\* has minimumReceived = floor(amountOut * 9900 / 10000) and no maximumSent,
\* EXACT_OUT has maximumSent = floor(amountIn * 10100 / 10000) and no
\* minimumReceived; and amountIn = 1,000,000,000 yields amountOut =
\* 997,000,000 and minimumReceived = 987,030,000.
C7_DefaultSlippageQuote ==
    (Settled("getQuote") /\ call.params.amount >= 0) =>
        LET q == call.outcome.value
        IN  /\ (call.params.tradeType = "EXACT_IN" /\ q.amountOut >= 0) =>
                 /\ q.minimumReceived = Some(BigMulDiv(q.amountOut, 9900, 10000))
                 /\ q.maximumSent = Undefined
            /\ (call.params.tradeType = "EXACT_OUT" /\ q.amountIn >= 0) =>
                 /\ q.maximumSent = Some(BigMulDiv(q.amountIn, 10100, 10000))
                 /\ q.minimumReceived = Undefined
            /\ (call.params.tradeType = "EXACT_IN" /\ call.params.amount = 1000000000) =>
                 /\ q.amountOut = 997000000
                 /\ q.minimumReceived = Some(987030000)

\* C8 as stated: in every quote the protection is strict, minimumReceived <
\* amountOut for EXACT_IN and maximumSent > amountIn for EXACT_OUT, for
\* every requested amount.
C8_Original ==
    (Settled("getQuote") /\ call.params.amount >= 0) =>
        LET q == call.outcome.value
        IN  /\ (call.params.tradeType = "EXACT_IN" /\ q.amountOut >= 0)
                 => q.minimumReceived[1] < q.amountOut
            /\ (call.params.tradeType = "EXACT_OUT" /\ q.amountIn >= 0)
                 => q.maximumSent[1] > q.amountIn

\* C8 amended: in every quote with a non-negative estimate the bound is
\* rounded down, so it is strict only from a threshold on: an EXACT_IN
\* quote has minimumReceived <= amountOut, and < exactly when amountOut >=
\* 1; an EXACT_OUT quote has maximumSent >= amountIn, and > exactly when
\* amountIn >= 100.
C8_StrictFromThreshold ==
    Settled("getQuote") =>
        LET q == call.outcome.value
        IN  /\ (call.params.tradeType = "EXACT_IN" /\ q.amountOut >= 0) =>
                 /\ q.minimumReceived[1] <= q.amountOut
                 /\ (q.minimumReceived[1] < q.amountOut) <=> (q.amountOut >= 1)
            /\ (call.params.tradeType = "EXACT_OUT" /\ q.amountIn >= 0) =>
                 /\ q.maximumSent[1] >= q.amountIn
                 /\ (q.maximumSent[1] > q.amountIn) <=> (q.amountIn >= 100)

\* C8 witness: an EXACT_OUT quote for a very small amount whose maximumSent
\* equals its amountIn of 99
C8_Witness ==
    /\ Settled("getQuote")
    /\ call.params.tradeType = "EXACT_OUT"
    /\ call.params.amount = 1
    /\ call.outcome.value.amountIn = 99
    /\ call.outcome.value.maximumSent = Some(99)

\* C9: an EXACT_IN buildSwapTransaction with slippage s in 0..10000 and
\* amount a >= 0 gives a payload of type swap_exact_tokens_for_tokens with
\* amountIn = a and amountOut = floor(e * (10000 - s) / 10000), e being the
\* exact-in estimate floor(a * 997 / 1000).
C9_ExactInSwapPayload ==
    (Settled("buildSwapTransaction") /\ call.params.tradeType = "EXACT_IN"
       /\ call.params.amount >= 0 /\ SlippageOf(call.params) \in 0..10000) =>
        LET tx == call.outcome.value
        IN  /\ tx.type = "swap_exact_tokens_for_tokens"
            /\ Decoded(tx.amountIn) = call.params.amount
            /\ Decoded(tx.amountOut) =
                 BigMulDiv(FlatFeeOut(call.params.amount),
                           10000 - SlippageOf(call.params), 10000)

\* C10: an EXACT_OUT buildSwapTransaction with slippage s in 0..10000 and
\* amount b >= 0 gives a payload of type swap_tokens_for_exact_tokens with
\* amountOut = b and amountIn = floor(e * (10000 + s) / 10000), e being
\* floor(b * 1000 / 997) + 1.
C10_ExactOutSwapPayload ==
    (Settled("buildSwapTransaction") /\ call.params.tradeType = "EXACT_OUT"
       /\ call.params.amount >= 0 /\ SlippageOf(call.params) \in 0..10000) =>
        LET tx == call.outcome.value
        IN  /\ tx.type = "swap_tokens_for_exact_tokens"
            /\ Decoded(tx.amountOut) = call.params.amount
            /\ Decoded(tx.amountIn) =
                 BigMulDiv(FlatFeeIn(call.params.amount),
                           10000 + SlippageOf(call.params), 10000)

StepOps == [i \in 1..Len(call.steps) |-> call.steps[i].op]

\* every awaited step but the last one succeeded
EarlierStepsSucceeded ==
    \A i \in 1..(Len(call.steps) - 1) : call.steps[i].status = "resolved"

\* C12: swapAndDeposit awaits getQuote, then buildSwapTransaction, then
\* buildDepositTransaction, each only after the one before it succeeded; a
\* step that fails is the last one and its error is the call's error; a call
\* that returns has run all three, its deposit payload's amounts are exactly
\* [quote.amountOut] of the quote of the first step, and estimatedAmountOut
\* is that same value.
C12_QuoteSwapDepositInOrder ==
    call.op = "swapAndDeposit" =>
        /\ Len(call.steps) \in 1..3
        /\ StepOps = SubSeq(<<"getQuote", "buildSwapTransaction", "buildDepositTransaction">>,
                            1, Len(call.steps))
        /\ EarlierStepsSucceeded
        /\ call.steps[Len(call.steps)].status = call.outcome.status
        /\ Len(call.steps) < 3 => call.outcome.status = "rejected"
        /\ Len(sdkCalls) <= Len(call.steps)
        /\ call.outcome.status = "resolved" =>
             /\ Len(call.steps) = 3
             /\ Len(call.outcome.value.depositTxXdr.amounts) = 1
             /\ Decoded(call.outcome.value.depositTxXdr.amounts[1]) = call.quote.value.amountOut
             /\ call.outcome.value.estimatedAmountOut = call.quote.value.amountOut

\* C12 witness: a swapAndDeposit that returned, whose first quote estimated
\* 997000000 while the quote inside buildSwapTransaction estimated 1000000000
C12_Witness ==
    /\ Settled("swapAndDeposit")
    /\ call.params.slippageBps = Some(200)
    /\ call.outcome.value.estimatedAmountOut = 997000000
    /\ call.outcome.value.depositTxXdr.amounts = <<"997000000">>
    /\ call.outcome.value.swapTxXdr.amountOut = "980000000"

\* C13 as stated: when the deposit build fails after the quote and the swap
\* build succeeded, the caller is left with the swap transaction that was
\* built.
C13_Original ==
    (call.op = "swapAndDeposit" /\ Len(call.steps) = 3
       /\ call.steps[3].status = "rejected") =>
        /\ "value" \in DOMAIN call.outcome
        /\ call.outcome.value.swapTxXdr = call.swapTx.value

\* C13 amended: when the deposit build fails after the quote and the swap
\* build succeeded, swapAndDeposit rejects with the YieldError of the
\* deposit build and nothing is rolled back: both quote requests have been
\* issued and the swap transaction has been built, but the rejection carries
\* only the error, so the swap transaction is dropped inside the call and
\* never reaches the caller.
C13_SwapTransactionDropped ==
    (call.op = "swapAndDeposit" /\ Len(call.steps) = 3
       /\ call.steps[3].status = "rejected") =>
        /\ call.steps[1].status = "resolved"
        /\ call.steps[2].status = "resolved"
        /\ call.swapTx.status = "resolved"
        /\ Len(sdkCalls) = 2
        /\ call.outcome.status = "rejected"
        /\ DOMAIN call.outcome = {"status", "error"}
        /\ call.outcome.error.name = "YieldError"
        /\ call.outcome.error.code = "VAULT_NOT_FOUND"

\* C13 witness: a swapAndDeposit on an invalid vault whose quote and swap
\* build succeeded
C13_Witness ==
    /\ Failed("swapAndDeposit")
    /\ call.params.vault = "INVALID"
    /\ Len(call.steps) = 3
    /\ call.swapTx.status = "resolved"
    /\ call.swapTx.value.type = "swap_exact_tokens_for_tokens"
    /\ call.outcome.error.message = "Invalid vault address"

\* C14: withdrawAndSwap awaits getVault, then buildWithdrawTransaction, and
\* then buildSwapTransaction exactly when the vault's asset differs from
\* tokenOut; that swap is EXACT_IN from the vault's asset to tokenOut for the
\* requested share count; a call that returns has a swapTxXdr exactly when
\* the assets differ, and its estimatedAmountOut is the share count.
C14_SwapOnlyWhenAssetDiffers ==
    call.op = "withdrawAndSwap" =>
        LET asset  == "CDLZFC3SYJYDZT7K67VZ75HPJVIEUVNIXF47ZG2FB2RMQQVU2HHGCYSC"
            differ == asset # call.params.tokenOut
        IN  /\ Len(call.steps) \in 1..3
            /\ StepOps = SubSeq(<<"getVault", "buildWithdrawTransaction", "buildSwapTransaction">>,
                                1, Len(call.steps))
            /\ EarlierStepsSucceeded
            /\ call.steps[Len(call.steps)].status = call.outcome.status
            /\ (Len(call.steps) >= 2 /\ call.steps[2].status = "resolved") =>
                 (Len(call.steps) = 3 <=> differ)
            /\ Len(call.steps) = 3 =>
                 /\ call.swapParams # Undefined
                 /\ call.swapParams[1].tradeType = "EXACT_IN"
                 /\ call.swapParams[1].tokenIn = asset
                 /\ call.swapParams[1].tokenOut = call.params.tokenOut
                 /\ call.swapParams[1].amount = call.params.shares
            /\ call.outcome.status = "resolved" =>
                 /\ call.outcome.value.withdrawTxXdr.type = "withdraw"
                 /\ Decoded(call.outcome.value.withdrawTxXdr.shares) = call.params.shares
                 /\ call.outcome.value.estimatedAmountOut = call.params.shares
                 /\ (call.outcome.value.swapTxXdr # Undefined) <=> differ
                 /\ differ =>
                      LET tx == call.outcome.value.swapTxXdr[1]
                      IN  /\ tx.type = "swap_exact_tokens_for_tokens"
                          /\ tx.tokenIn = asset
                          /\ tx.tokenOut = call.params.tokenOut
                          /\ Decoded(tx.amountIn) = call.params.shares

\* C14 witness: a withdrawAndSwap of 500000000 shares into the other token,
\* which returned a swap payload
C14_Witness ==
    /\ Settled("withdrawAndSwap")
    /\ call.params.tokenOut = VALID_TOKEN_B
    /\ call.params.shares = 500000000
    /\ call.outcome.value.swapTxXdr # Undefined
    /\ call.outcome.value.swapTxXdr[1].amountIn = "500000000"
    /\ call.outcome.value.estimatedAmountOut = 500000000

WalletOps ==
    {"createWallet", "getWallet", "addSigner", "removeSigner", "signTransaction",
     "executeTransaction", "getBalances", "sendTransactionViaSdk"}

DexOps ==
    {"getQuote", "buildSwapTransaction", "buildAddLiquidityTransaction",
     "buildRemoveLiquidityTransaction", "getPools", "getPool", "getTokenBalance"}

YieldOps ==
    {"getVaults", "getVault", "getVaultBalance", "getEstimatedAPY",
     "buildDepositTransaction", "buildWithdrawTransaction"}

\* the wallet operations that issue one HTTP request
SingleRequestOps ==
    {"createWallet", "getWallet", "addSigner", "removeSigner", "signTransaction",
     "getBalances"}

\* what an HTTP exchange threw: the rejection of fetch, or the error of
\* response.json() when the body was read
ResponseThrown(res, bodyRead) ==
    IF res.kind = "throw" THEN Some(res.thrown)
    ELSE IF bodyRead /\ res.json.kind = "throw" THEN Some(res.json.thrown)
    ELSE Undefined

\* the last HTTP answer of the last wallet call
LastResponse ==
    IF call.op = "executeTransaction" THEN call.responses[Len(call.responses)]
    ELSE call.response

\* the value thrown by fetch, by response.json(), by a vendor SDK or by a
\* conversion of its answer during the last call, if any
ThrownInCall ==
    IF call.op \in {"getQuote", "buildSwapTransaction", "sendTransactionViaSdk"}
    THEN call.thrown
    ELSE IF call.op \in SingleRequestOps \cup {"executeTransaction"}
    THEN ResponseThrown(LastResponse,
                        ~(call.op = "getWallet" /\ LastResponse.kind = "response"
                            /\ LastResponse.status = 404))
    ELSE Undefined

\* the class of the errors of the sub-client an operation belongs to
DomainError(op) ==
    IF op \in WalletOps THEN "WalletError"
    ELSE IF op \in DexOps THEN "DexError" ELSE "YieldError"

IsErrorCode(code) == \E k \in DOMAIN ErrorCodes : ErrorCodes[k] = code

\* the last call was answered by a non-success HTTP response or something
\* was thrown during it
ExternalFailure ==
    \/ ThrownInCall # Undefined
    \/ /\ call.op \in SingleRequestOps \cup {"executeTransaction"}
       /\ LastResponse.kind = "response"
       /\ LastResponse.status \notin 200..299

\* C15 as stated: a sub-client operation that meets a non-success HTTP
\* response or a thrown value rejects with its domain's error class and a
\* code of ErrorCodes, no other error escapes, and a thrown value is always
\* kept as the error's cause.
C15_Original ==
    call.op \in WalletOps \cup DexOps \cup YieldOps =>
        /\ ExternalFailure => call.outcome.status = "rejected"
        /\ call.outcome.status = "rejected" =>
             /\ call.outcome.error.name = DomainError(call.op)
             /\ IsErrorCode(call.outcome.error.code)
             /\ ThrownInCall # Undefined => call.outcome.error.cause = ThrownInCall

\* C15 amended: a sub-client operation that meets a non-success HTTP
\* response or a thrown value rejects with its domain's error class and a
\* code of ErrorCodes, and no other error escapes; the cause is the thrown
\* value only when that value is an Error: a thrown value of another type
\* is dropped and the cause is undefined, as it is for a non-success
\* response.  getEstimatedAPY alone wraps an error of its own class, the
\* YieldError of getVault, as the cause.
C15_CauseOnlyForErrors ==
    call.op \in WalletOps \cup DexOps \cup YieldOps =>
        /\ ExternalFailure => call.outcome.status = "rejected"
        /\ call.outcome.status = "rejected" =>
             /\ call.outcome.error.name = DomainError(call.op)
             /\ IsErrorCode(call.outcome.error.code)
             /\ call.op # "getEstimatedAPY" =>
                  call.outcome.error.cause =
                    (IF ThrownInCall # Undefined /\ ThrownInCall[1].isError
                     THEN ThrownInCall ELSE Undefined)
             /\ call.op = "getEstimatedAPY" =>
                  /\ call.outcome.error.cause # Undefined
                  /\ call.outcome.error.cause[1].name = "YieldError"

\* C15 witness: an executeTransaction whose submit answer had a body that is
\* no JSON, rejected as TX_SUBMISSION_FAILED with the SyntaxError as cause
C15_Witness ==
    /\ Failed("executeTransaction")
    /\ Len(call.responses) = 2
    /\ call.responses[2].kind = "response"
    /\ call.responses[2].status = 200
    /\ call.outcome.error.name = "WalletError"
    /\ call.outcome.error.code = "TX_SUBMISSION_FAILED"
    /\ call.outcome.error.cause # Undefined
    /\ call.outcome.error.cause[1].name = "SyntaxError"

\* C16: no request is issued twice.  createWallet, getWallet, addSigner,
\* removeSigner, signTransaction and getBalances issue exactly one HTTP
\* request each, whether they succeed or fail; executeTransaction issues the
\* sign request and then, only when signing succeeded, the one submit
\* request, so at most two and never the same one again; the other
\* operations issue none.
C16_OneRequestPerCall ==
    /\ call.op \in SingleRequestOps => Len(fetchCalls) = 1
    /\ call.op = "executeTransaction" =>
         /\ Len(fetchCalls) \in {1, 2}
         /\ Len(fetchCalls) = 2 <=> call.signed.status = "resolved"
         /\ Len(fetchCalls) = 2 => fetchCalls[1] # fetchCalls[2]
         /\ Len(call.responses) = Len(fetchCalls)
    /\ call.op \notin SingleRequestOps \cup {"executeTransaction"} => fetchCalls = <<>>

\* C16 witness: an executeTransaction whose submit request was answered with
\* status 500, rejected after two requests
C16_Witness ==
    /\ Failed("executeTransaction")
    /\ Len(fetchCalls) = 2
    /\ call.responses[2].kind = "response"
    /\ call.responses[2].status = 500
    /\ call.outcome.error.code = "TX_SUBMISSION_FAILED"

\* the sign request of the last executeTransaction was answered with a
\* success status and a body that is JSON
SignSucceeded ==
    /\ call.responses[1].kind = "response"
    /\ call.responses[1].status \in 200..299
    /\ call.responses[1].json.kind = "value"

\* C17: executeTransaction first issues the sign request for the given
\* transaction; when signing succeeded it issues the submit request, which
\* carries the signedXdr of the sign answer and submit = true; when signing
\* failed it rejects with a WalletError and no submit request is issued.
C17_SignBeforeSubmit ==
    call.op = "executeTransaction" =>
        /\ fetchCalls[1].body[1].transaction = Some(call.params.txXdr)
        /\ fetchCalls[1].body[1].submit = Undefined
        /\ SignSucceeded =>
             LET answer == call.responses[1].json.body
             IN  /\ Len(fetchCalls) = 2
                 /\ fetchCalls[2].body[1].submit = Some(TRUE)
                 /\ fetchCalls[2].body[1].transaction =
                      (IF "signedXdr" \in DOMAIN answer THEN Some(answer.signedXdr)
                       ELSE Undefined)
        /\ ~SignSucceeded =>
             /\ call.outcome.status = "rejected"
             /\ call.outcome.error.name = "WalletError"
             /\ call.outcome.error.code = "SIGNATURE_FAILED"
             /\ Len(fetchCalls) = 1

\* C17 witness: an executeTransaction that returned the answer of a submit
\* request carrying SIGNED_XDR
C17_Witness ==
    /\ Settled("executeTransaction")
    /\ call.params.txXdr = "ORIGINAL_XDR"
    /\ Len(fetchCalls) = 2
    /\ fetchCalls[2].body[1].transaction = Some("SIGNED_XDR")
    /\ fetchCalls[2].body[1].submit = Some(TRUE)
    /\ "hash" \in DOMAIN call.outcome.value
    /\ call.outcome.value.hash = "TX_HASH_123"

\* a CrossmintWallet as its constructor leaves it for the configuration it holds
AsConstructed(w) ==
    [isNull |-> FALSE, apiKey |-> w.apiKey, network |-> w.network, baseUrl |-> w.baseUrl,
     stellarWallet |-> Null]

OnlySetStellarWalletAssigns ==
    /\ call'.op \notin {"new CrossmintWallet", "new StellarDefiClient", "setStellarWallet"}
         => wallet' = wallet /\ client' = client
    /\ call'.op = "setStellarWallet" =>
         /\ ~wallet.isNull => AsConstructed(wallet') = AsConstructed(wallet)
         /\ wallet.isNull => wallet'.isNull
         /\ ~client.isNull =>
              /\ AsConstructed(client'.wallet) = AsConstructed(client.wallet)
              /\ [client' EXCEPT !.wallet = Null] = [client EXCEPT !.wallet = Null]
         /\ client.isNull => client'.isNull

\* sendTransactionViaSdk reads the stellarWallet field: it rejects as
\* WALLET_NOT_FOUND without reaching the vendor SDK exactly when no
\* setStellarWallet call on the instance came before
SendReadsStellarWallet ==
    call.op = "sendTransactionViaSdk" =>
        IF call.this.stellarWallet = Null
        THEN /\ call.outcome.status = "rejected"
             /\ call.outcome.error.code = "WALLET_NOT_FOUND"
             /\ sdkCalls = <<>>
        ELSE /\ Len(sdkCalls) = 1
             /\ call.outcome.status = "rejected"
                  => call.outcome.error.code = "TX_SUBMISSION_FAILED"

C19_LiquidityInvalidTokenRejected ==
    (/\ call.op \in {"buildAddLiquidityTransaction", "buildRemoveLiquidityTransaction"}
     /\ ~(MatchesAddressRule(call.params.tokenA) /\ MatchesAddressRule(call.params.tokenB))) =>
        /\ call.outcome.status = "rejected"
        /\ call.outcome.error.name = "DexError"
        /\ call.outcome.error.code = "INVALID_TOKEN"

\* C20: every amount of a returned quote and every amount encoded in a
\* built payload is >= 0, for every amount argument and every slippageBps
\* the operation accepts.
C20_AmountsNonNegative ==
    /\ Settled("getQuote") =>
         LET q == call.outcome.value
         IN  /\ q.amountIn >= 0
             /\ q.amountOut >= 0
             /\ q.minimumReceived # Undefined => q.minimumReceived[1] >= 0
             /\ q.maximumSent # Undefined => q.maximumSent[1] >= 0
    /\ Settled("buildSwapTransaction") =>
         /\ Decoded(call.outcome.value.amountIn) >= 0
         /\ Decoded(call.outcome.value.amountOut) >= 0
    /\ (Settled("buildAddLiquidityTransaction") \/ Settled("buildRemoveLiquidityTransaction")) =>
         /\ Decoded(call.outcome.value.amountAMin) >= 0
         /\ Decoded(call.outcome.value.amountBMin) >= 0
    /\ Settled("buildDepositTransaction") =>
         \A i \in 1..Len(call.outcome.value.amounts) :
            Decoded(call.outcome.value.amounts[i]) >= 0
    /\ Settled("buildWithdrawTransaction") =>
         Decoded(call.outcome.value.shares) >= 0

\* the priceImpact values (hundredths of a percent) that getQuote can return
\* for `params`
PriceImpactsFor(params) ==
    { r.outcome.value.priceImpact :
        r \in { x \in quoteOf(params) : x.outcome.status = "resolved" } }

\* C21: the priceImpact of every quote lies in [0, 100] percent, and for a
\* fixed token pair and trade type a larger amount never yields a smaller
\* priceImpact than a smaller amount can yield.
C21_PriceImpactMonotoneCapped ==
    Settled("getQuote") =>
        /\ call.outcome.value.priceImpact >= 0
        /\ call.outcome.value.priceImpact <= 10000
        /\ \A smaller \in { a \in Amounts : a >= 0 /\ a < call.params.amount } :
              \A pi \in PriceImpactsFor([call.params EXCEPT !.amount = smaller]) :
                 pi <= call.outcome.value.priceImpact

\* C22: the route of every returned quote contains tokenIn and tokenOut and
\* has at least two entries, whatever route plan the quoting backend
\* returned, and so does the path of every swap payload.
C22_RouteHoldsBothTokens ==
    /\ Settled("getQuote") =>
         LET route == call.outcome.value.route
         IN  /\ Len(route) >= 2
             /\ \E i \in 1..Len(route) : route[i] = call.params.tokenIn
             /\ \E i \in 1..Len(route) : route[i] = call.params.tokenOut
    /\ Settled("buildSwapTransaction") =>
         LET path == call.outcome.value.path
         IN  /\ \E i \in 1..Len(path) : path[i] = call.params.tokenIn
             /\ \E i \in 1..Len(path) : path[i] = call.params.tokenOut

\* C23: a returned quote echoes the caller's exact side of the trade and its
\* tokens, whatever the backend answered: EXACT_IN has amountIn equal to the
\* requested amount, EXACT_OUT has amountOut equal to the requested amount,
\* and tokenIn/tokenOut are the requested tokens.
C23_ExactSideEchoed ==
    Settled("getQuote") =>
        LET q == call.outcome.value
        IN  /\ q.tokenIn = call.params.tokenIn
            /\ q.tokenOut = call.params.tokenOut
            /\ call.params.tradeType = "EXACT_IN" => q.amountIn = call.params.amount
            /\ call.params.tradeType = "EXACT_OUT" => q.amountOut = call.params.amount

\* an EXACT_IN quote for 1000 whose backend answered amountIn "5" and
\* amountOut "4" (no other answer gives amountOut 4): amountIn is 1000
C23_Witness ==
    /\ Settled("getQuote")
    /\ call.params.tradeType = "EXACT_IN"
    /\ call.params.amount = 1000
    /\ call.params.tokenIn # call.params.tokenOut
    /\ call.outcome.value.amountOut = 4
    /\ call.outcome.value.amountIn = 1000

\* the operations of DefindexYield that check their vault address
VaultCheckedOps ==
    {"getVault", "getEstimatedAPY", "buildDepositTransaction", "buildWithdrawTransaction"}

\* the vault address a call of one of them was given
VaultArgument ==
    IF call.op = "getVault" THEN call.params.address ELSE call.params.vault

\* C24: getVault, getEstimatedAPY, buildDepositTransaction and
\* buildWithdrawTransaction given a vault address that is not exactly 56
\* characters starting with 'C' reject with a YieldError of code
\* VAULT_NOT_FOUND; every address that satisfies the rule is accepted, and
\* getVault returns a record whose address is the argument.
C24_VaultAddressChecked ==
    call.op \in VaultCheckedOps =>
        IF MatchesAddressRule(VaultArgument)
        THEN /\ call.outcome.status = "resolved"
             /\ call.op = "getVault" => call.outcome.value.address = VaultArgument
        ELSE /\ call.outcome.status = "rejected"
             /\ call.outcome.error.name = "YieldError"
             /\ call.outcome.error.code = "VAULT_NOT_FOUND"

\* getEstimatedAPY was given an address with the wrong prefix and rejected
C24_Witness ==
    /\ Failed("getEstimatedAPY")
    /\ Len(call.params.vault) = 56
    /\ SubSeq(call.params.vault, 1, 1) = "G"
    /\ call.outcome.error.code = "VAULT_NOT_FOUND"

\* the decimal text of a bigint as JSON carries it: digits without leading
\* zeros, a minus sign in front of a negative value
IsDecimalOf(text, n) ==
    /\ BigInt(text).ok
    /\ BigInt(text).value = n
    /\ SubSeq(text, 1, 1) # "+"
    /\ Len(text) > (IF n < 0 THEN 2 ELSE 1) =>
          SubSeq(text, IF n < 0 THEN 2 ELSE 1, IF n < 0 THEN 2 ELSE 1) # "0"

\* C25: the payload of buildDepositTransaction reads back as type 'deposit',
\* the given vault, the amounts as decimal strings in the given order, to =
\* sourceAddress, invest = false unless given and slippageBps = 100 unless
\* given; the payload of buildWithdrawTransaction reads back as type
\* 'withdraw', the given vault, shares as a decimal string, to =
\* sourceAddress, withdrawAssets = [] unless given and slippageBps = 100
\* unless given.
C25_YieldPayloadLossless ==
    /\ Settled("buildDepositTransaction") =>
         LET decoded == call.outcome.value
             params  == call.params
         IN  /\ decoded.type = "deposit"
             /\ decoded.vault = params.vault
             /\ Len(decoded.amounts) = Len(params.amounts)
             /\ \A i \in 1..Len(params.amounts) :
                   IsDecimalOf(decoded.amounts[i], params.amounts[i])
             /\ decoded.to = params.sourceAddress
             /\ decoded.invest = (IF params.invest = Undefined THEN FALSE ELSE params.invest[1])
             /\ decoded.slippageBps =
                   (IF params.slippageBps = Undefined THEN 100 ELSE params.slippageBps[1])
    /\ Settled("buildWithdrawTransaction") =>
         LET decoded == call.outcome.value
             params  == call.params
         IN  /\ decoded.type = "withdraw"
             /\ decoded.vault = params.vault
             /\ IsDecimalOf(decoded.shares, params.shares)
             /\ decoded.to = params.sourceAddress
             /\ decoded.withdrawAssets =
                   (IF params.withdrawAssets = Undefined THEN <<>> ELSE params.withdrawAssets[1])
             /\ decoded.slippageBps =
                   (IF params.slippageBps = Undefined THEN 100 ELSE params.slippageBps[1])

\* a deposit of two amounts with slippageBps 0 given and invest left out
C25_Witness ==
    /\ Settled("buildDepositTransaction")
    /\ call.params.amounts = <<1, 0>>
    /\ call.params.slippageBps = Some(0)
    /\ call.params.invest = Undefined
    /\ call.outcome.value.amounts = <<"1", "0">>
    /\ call.outcome.value.slippageBps = 0
    /\ call.outcome.value.invest = FALSE

\* a step in which getClient() is called and settles
GetClientStep == call.op # "getClient" /\ call'.op = "getClient"

\* C26: the demo's client is a lazily constructed singleton.  While an
\* instance is stored no other is constructed and only resetClient drops
\* it; getClient returns the stored instance if there is one; a getClient
\* that fails stores no instance and constructs none; a getClient that finds
\* no instance and succeeds constructs one new object and stores it.
C26_LazySingleton ==
    [][ /\ ~clientInstance.isNull =>
             /\ constructed' = constructed
             /\ clientInstance' = clientInstance
                \/ (clientInstance' = Null /\ call'.op = "resetClient")
        /\ (GetClientStep /\ ~clientInstance.isNull) =>
             call'.outcome = Resolved(clientInstance)
        /\ (GetClientStep /\ call'.outcome.status = "rejected") =>
             /\ clientInstance' = Null
             /\ constructed' = constructed
        /\ (GetClientStep /\ clientInstance.isNull /\ call'.outcome.status = "resolved") =>
             /\ constructed' = constructed + 1
             /\ call'.outcome.value.ref = constructed'
             /\ clientInstance' = call'.outcome.value
      ]_vars

\* getClient has returned the second object: the first was dropped by
\* resetClient, and the object returned is the one stored
C26_Witness ==
    /\ Settled("getClient")
    /\ constructed = 2
    /\ call.outcome.value.ref = 2
    /\ clientInstance = call.outcome.value

\* C27: a displayed quote belongs to the inputs on screen: whenever the
\* widget holds a quote, it was computed for the selected token pair and for
\* the amount in the amount field.
C27_QuoteMatchesInputs ==
    widget.quote # Undefined =>
        /\ widget.quote[1].tokenIn = tokenAt(widget.tokenInIndex).address
        /\ widget.quote[1].tokenOut = tokenAt(widget.tokenOutIndex).address
        /\ ~parseFloat(widget.amountIn).nan
        /\ widget.quote[1].amountIn = amountOf(widget.amountIn)

\* C28: the swap that handleSwap builds or sends is the swap that was
\* quoted: its input token, output token and input amount are the tokenIn,
\* tokenOut and amountIn of the quote displayed at the click.
C28_SwapIsTheQuotedSwap ==
    /\ inflight.kind = "buildSwapTransaction" =>
         /\ inflight.params.tokenIn = inflight.quote.tokenIn
         /\ inflight.params.tokenOut = inflight.quote.tokenOut
         /\ inflight.params.amount = inflight.quote.amountIn
    /\ inflight.kind = "sendTransaction" =>
         LET path == inflight.request.args.path
         IN  /\ path[1] = inflight.quote.tokenIn
             /\ path[Len(path)] = inflight.quote.tokenOut
             /\ Decoded(inflight.request.args.amount_in) = inflight.quote.amountIn

\* C29: within one swapAndDeposit call the two transactions are built from
\* the same estimate: the minimum amountOut written into the swap payload is
\* the slippage-reduced amount that the deposit payload deposits, whatever
\* the quoting backend answers on its successive quote requests.
C29_SameEstimate ==
    Settled("swapAndDeposit") =>
        Decoded(call.outcome.value.swapTxXdr.amountOut)
          = BigMulDiv(Decoded(call.outcome.value.depositTxXdr.amounts[1]),
                      BPS_DENOMINATOR - Coalesce(call.params.slippageBps,
                                                 DEFAULT_SLIPPAGE_BPS),
                      BPS_DENOMINATOR)

\* the one request the attached StellarWallet received in the settled
\* sendTransactionViaSdk call: the four fields of the caller's parameters
ForwardedToAttached ==
    sdkCalls = <<[receiver |-> call.this.stellarWallet,
                  request  |-> [contractId |-> call.params.contractId,
                                method |-> call.params.method,
                                args |-> call.params.args,
                                transaction |-> call.params.transaction]]>>

\* what C30 states for every outcome of sendTransactionViaSdk, with `cause`
\* the cause that the error of a failed send carries
SendViaSdkAsClaimed(cause) ==
    call.op = "sendTransactionViaSdk" =>
        IF call.this.stellarWallet = Null
        THEN /\ call.outcome.status = "rejected"
             /\ call.outcome.error.name = "WalletError"
             /\ call.outcome.error.code = "WALLET_NOT_FOUND"
             /\ sdkCalls = <<>>
        ELSE /\ ForwardedToAttached
             /\ call.answer.kind = "result" =>
                  /\ call.outcome.status = "resolved"
                  /\ call.outcome.value.hash
                       = (IF call.answer.hash = Undefined THEN "" ELSE call.answer.hash[1])
                  /\ call.outcome.value.explorerLink = call.answer.explorerLink
             /\ call.answer.kind = "throw" =>
                  /\ call.outcome.status = "rejected"
                  /\ call.outcome.error.name = "WalletError"
                  /\ call.outcome.error.code = "TX_SUBMISSION_FAILED"
                  /\ call.outcome.error.cause = cause

\* after setStellarWallet(w) the instance it was called on holds w
AttachedIsLastSet ==
    call.op = "setStellarWallet" =>
        \E w \in WalletInstances :
            /\ w.stellarWallet = call.params.wallet
            /\ [w EXCEPT !.stellarWallet = call.this.stellarWallet] = call.this

\* C30 as stated: sendTransactionViaSdk without an attached StellarWallet
\* rejects as WALLET_NOT_FOUND without an SDK call; with one it forwards the
\* request to that wallet only and returns its hash ('' when absent) and
\* explorer link, and whatever the wallet throws becomes a WalletError
\* TX_SUBMISSION_FAILED whose cause is the thrown value.
C30_Original ==
    SendViaSdkAsClaimed(Some(call.answer.thrown))

\* C30 amended: as above, but the thrown value is the cause of the
\* WalletError only when it is an instance of Error; a thrown value of any
\* other type is dropped and the error has no cause.
C30_SendViaAttachedWallet ==
    /\ AttachedIsLastSet
    /\ SendViaSdkAsClaimed(IF call.answer.thrown.isError
                           THEN Some(call.answer.thrown) ELSE Undefined)

\* C30 witness: after a setStellarWallet of the second StellarWallet, a
\* sendTransactionViaSdk that this wallet answered without a hash, and that
\* returned the empty string
C30_Witness ==
    /\ Settled("sendTransactionViaSdk")
    /\ call.this.stellarWallet # Null
    /\ call.this.stellarWallet.address = "GADDR456"
    /\ Len(sdkCalls) = 1
    /\ sdkCalls[1].receiver.address = "GADDR456"
    /\ call.answer.hash = Undefined
    /\ call.outcome.value.hash = ""

====
